---- MODULE Spec2Model ----
(***************************************************************************)
(* Model of scrim_draft_analyzer.py: the draft-event extraction             *)
(* (ScrimDraftAnalyzer.extract_draft_from_file) and the role assignment     *)
(* (ScrimDraftAnalyzer.assign_team_roles).                                  *)
(*                                                                          *)
(* Python values are represented as follows.                                *)
(*   dict                        sequence of <<key, value>> pairs in the    *)
(*                               insertion order of the keys                *)
(*   list                        sequence                                   *)
(*   display name (str)          sequence of symbols; " " and "\t" are      *)
(*                               whitespace, any other symbol is a word     *)
(*   None (a name)               the empty sequence                         *)
(***************************************************************************)
EXTENDS Integers, Sequences, FiniteSets, TLC

VARIABLES
    champion_role_data,  \* self.champion_role_data, loaded at construction
    roles_call,          \* one call of assign_team_roles: its argument, its
                         \* locals and whether it has returned
    parser,              \* one call of extract_draft_from_file: its locals,
                         \* where it stands and what it returned
    reference,           \* the locals of the same call on the same stream
                         \* without the lines that do not decode
    observed,            \* what the snapshots processed so far have shown:
                         \* ban keys, and per participant the champions
    report_call,         \* one call of format_draft_for_sheets: its
                         \* arguments and the row it returned
    driver               \* the runs of the analyzer: the tracking file, the
                         \* downloads directory, the sheet, and the process
                         \* that runs

vars == <<champion_role_data, roles_call, parser, reference, observed,
          report_call, driver>>

----------------------------------------------------------------------------
(* Generic helpers *)

Range(s) == {s[i] : i \in 1..Len(s)}

Min(a, b) == IF a < b THEN a ELSE b

\* e, with x evaluated before it: TLC evaluates LET definitions and operator
\* arguments on demand, and a loop that threads its state through them nests
\* one evaluation per iteration unless each state is evaluated when produced
EvaluatedFirst(x, e) == IF x = x THEN e ELSE e

\* dict operations
EmptyDict == <<>>

DictHas(d, k) == \E i \in 1..Len(d) : d[i][1] = k

DictGet(d, k) == d[CHOOSE i \in 1..Len(d) : d[i][1] = k][2]

\* d[k] = v: a new key goes last, a known key keeps its place
RECURSIVE DictSet(_, _, _)
DictSet(d, k, v) ==
    IF d = <<>> THEN << <<k, v>> >>
    ELSE IF Head(d)[1] = k THEN << <<k, v>> >> \o Tail(d)
    ELSE << Head(d) >> \o DictSet(Tail(d), k, v)

DictKeys(d) == {d[i][1] : i \in 1..Len(d)}

\* list.index(x), 0-based; x is in the list
IndexOf(seq, x) ==
    (CHOOSE i \in 1..Len(seq) : seq[i] = x /\ \A j \in 1..(i-1) : seq[j] # x) - 1

RemoveAt(seq, i) == SubSeq(seq, 1, i-1) \o SubSeq(seq, i+1, Len(seq))

\* x put in front of every sequence of a list of sequences
RECURSIVE PrependToAll(_, _)
PrependToAll(x, list) ==
    IF list = <<>> THEN <<>>
    ELSE << <<x>> \o Head(list) >> \o PrependToAll(x, Tail(list))

\* itertools.permutations(seq): all orderings, in lexicographic order of the
\* positions of the input (those starting with seq[i], from i on)
RECURSIVE permutations(_)
RECURSIVE PermutationsFrom(_, _)
permutations(seq) ==
    IF Len(seq) = 0 THEN << <<>> >> ELSE PermutationsFrom(seq, 1)

PermutationsFrom(seq, i) ==
    IF i > Len(seq) THEN <<>>
    ELSE PrependToAll(seq[i], permutations(RemoveAt(seq, i)))
         \o PermutationsFrom(seq, i + 1)

----------------------------------------------------------------------------
(* Champion catalog *)

\* the entries of CHAMPION_NAMES for the champion ids the model uses
CHAMPION_NAMES ==
    1 :> "Annie" @@ 2 :> "Olaf" @@ 14 :> "Sion" @@ 62 :> "Wukong" @@
    64 :> "Lee Sin" @@ 238 :> "Zed"

get_champion_name(champion_id) ==
    IF champion_id \in DOMAIN CHAMPION_NAMES
    THEN CHAMPION_NAMES[champion_id]
    ELSE "Unknown_Champion_" \o ToString(champion_id)

\* the entries of get_champion_role's table for the champion ids the model uses
StaticRoles == 1 :> "mid" @@ 14 :> "top" @@ 64 :> "jungle" @@ 238 :> "mid"

get_champion_role(champion_id) ==
    IF champion_id \in DOMAIN StaticRoles THEN StaticRoles[champion_id] ELSE "unknown"

\* champ_name.replace("'", "").replace(" ", "").lower() on the names the
\* model's catalog can produce
GenericNormalized ==
    "Annie" :> "annie" @@ "Olaf" :> "olaf" @@ "Sion" :> "sion" @@ "Zed" :> "zed" @@
    "Unknown_Champion_9999" :> "unknown_champion_9999"

\* the alias chain of assign_team_roles, then the generic rule
NormalizedName(champ_name) ==
    CASE champ_name = "Lee Sin" -> "leesin"
      [] champ_name = "Wukong" -> "monkeyking"
      [] OTHER -> GenericNormalized[champ_name]

\* contents champion-data.json can give self.champion_role_data: the file is
\* missing (empty dict), or it lists ordered role subsets per champion key
NoAffinity == [n \in {} |-> <<>>]

AffinityA ==
    "sion" :> <<"top">> @@ "leesin" :> <<"jungle", "top">> @@
    "zed" :> <<"mid", "adc", "top">> @@ "wukong" :> <<"top", "jungle">>

AffinityB ==
    "sion" :> <<"top", "supp", "mid">> @@ "zed" :> <<"mid", "jungle">> @@
    "annie" :> <<"mid", "supp">>

AffinityTables == {NoAffinity, AffinityA, AffinityB}

----------------------------------------------------------------------------
(* assign_team_roles *)

required_roles == <<"top", "jungle", "mid", "adc", "supp">>

AllPermutations == permutations(required_roles)

\* one iteration of the first loop: the preference list of a member
PreferenceList(champ_name, champ_id, data) ==
    LET normalized_name == NormalizedName(champ_name)
    IN IF normalized_name \in DOMAIN data
       THEN data[normalized_name]
       ELSE LET role == get_champion_role(champ_id)
            IN IF role # "unknown" THEN <<role>> ELSE <<>>

\* champion_roles after the first loop over the tuples from the i-th on
RECURSIVE ChampionRolesFrom(_, _, _, _)
ChampionRolesFrom(i, team, data, croles) ==
    IF i > Len(team) THEN croles
    ELSE ChampionRolesFrom(i + 1, team, data,
             DictSet(croles, team[i].pid,
                     PreferenceList(team[i].name, team[i].id, data)))

ChampionRolesOf(team, data) == ChampionRolesFrom(1, team, data, EmptyDict)

RECURSIVE ParticipantIdsFrom(_, _)
ParticipantIdsFrom(i, team) ==
    IF i > Len(team) THEN <<>> ELSE <<team[i].pid>> \o ParticipantIdsFrom(i + 1, team)

ParticipantIds(team) == ParticipantIdsFrom(1, team)

\* a variant without the positional convention
NoPositionMatch(pid, role) == FALSE

\* the position test of calculate_assignment_score
PositionMatch(pid, role) ==
    \/ pid \in {1, 6} /\ role = "top"
    \/ pid \in {2, 7} /\ role = "jungle"
    \/ pid \in {3, 8} /\ role = "mid"
    \/ pid \in {4, 9} /\ role = "adc"
    \/ pid \in {5, 10} /\ role = "supp"

\* a variant that adds the position bonus to a role the member does not list
MemberScoreFlatBonus(pid, role, croles) ==
    IF DictHas(croles, pid) /\ DictGet(croles, pid) # <<>>
    THEN LET roles == DictGet(croles, pid)
         IN (IF \E i \in 1..Len(roles) : roles[i] = role
             THEN 10 - IndexOf(roles, role) * 2 ELSE 1)
            + (IF PositionMatch(pid, role) THEN 3 ELSE 0)
    ELSE IF PositionMatch(pid, role) THEN 5 ELSE 2

\* the body of the loop of calculate_assignment_score
MemberScore(pid, role, croles) ==
    IF DictHas(croles, pid) /\ DictGet(croles, pid) # <<>>
    THEN LET roles == DictGet(croles, pid)
         IN IF \E i \in 1..Len(roles) : roles[i] = role
            THEN (10 - IndexOf(roles, role) * 2)
                 + (IF PositionMatch(pid, role) THEN 3 ELSE 0)
            ELSE 1
    ELSE IF PositionMatch(pid, role) THEN 5 ELSE 2

\* the loop over assignment.items(), from the k-th item on
RECURSIVE ScoreFrom(_, _, _)
ScoreFrom(k, assignment, croles) ==
    IF k > Len(assignment) THEN 0
    ELSE MemberScore(assignment[k][1], assignment[k][2], croles)
         + ScoreFrom(k + 1, assignment, croles)

calculate_assignment_score(assignment, croles) == ScoreFrom(1, assignment, croles)

\* dict(zip(participant_ids, perm)), from the i-th pair on
RECURSIVE ZipFrom(_, _, _, _)
ZipFrom(i, participant_ids, perm, d) ==
    IF i > Min(Len(participant_ids), Len(perm)) THEN d
    ELSE ZipFrom(i + 1, participant_ids, perm, DictSet(d, participant_ids[i], perm[i]))

\* a variant that gives every participant the first role of the candidate
ZipFirstRole(participant_ids, perm) ==
    ZipFrom(1, participant_ids, [i \in 1..Len(perm) |-> perm[1]], EmptyDict)

\* dict(zip(participant_ids, perm))
ZipAssignment(participant_ids, perm) == ZipFrom(1, participant_ids, perm, EmptyDict)

\* a variant that keeps the first candidate of the enumeration
IsFirstCandidate(score, best) == best < 0

\* a variant that keeps the last of the equally scored candidates
IsBetterOrEqual(score, best) == score >= best

\* the test "score > best_score" of the search loop
IsBetter(score, best) == score > best

\* one iteration of the search loop: candidate i against the best so far
SearchStep(i, so_far, participant_ids, croles) ==
    LET assignment == ZipAssignment(participant_ids, AllPermutations[i])
        score == calculate_assignment_score(assignment, croles)
    IN IF IsBetter(score, so_far.best_score)
       THEN [best_score |-> score, best_assignment |-> assignment]
       ELSE so_far

\* the search loop over candidates lo..hi in enumeration order, started with
\* so_far (the iterations lo..mid run first, then mid+1..hi on their outcome)
RECURSIVE SearchLoop(_, _, _, _, _)
SearchLoop(lo, hi, so_far, participant_ids, croles) ==
    IF lo > hi THEN so_far
    ELSE IF lo = hi THEN SearchStep(lo, so_far, participant_ids, croles)
    ELSE LET mid == (lo + hi) \div 2
             first_half == SearchLoop(lo, mid, so_far, participant_ids, croles)
         IN EvaluatedFirst(first_half,
                SearchLoop(mid + 1, hi, first_half, participant_ids, croles))

\* a variant that reports the role of the search unchanged
FinalRoleUnchecked(pid, role, croles) == role

\* a variant that reports the first listed role in place of a role the member
\* does not list
FinalRolePreferred(pid, role, croles) ==
    IF DictHas(croles, pid) /\ DictGet(croles, pid) # <<>>
    THEN LET roles == DictGet(croles, pid)
         IN IF \A i \in 1..Len(roles) : roles[i] # role THEN roles[1] ELSE role
    ELSE role

\* the body of the post-processing loop
FinalRole(pid, role, croles) ==
    IF DictHas(croles, pid) /\ DictGet(croles, pid) # <<>>
    THEN LET roles == DictGet(croles, pid)
         IN IF \A i \in 1..Len(roles) : roles[i] # role THEN "" ELSE role
    ELSE role

\* the post-processing loop over best_assignment.items(), from the k-th on
RECURSIVE FinalFrom(_, _, _, _)
FinalFrom(k, best, croles, final) ==
    IF k > Len(best) THEN final
    ELSE FinalFrom(k + 1, best, croles,
             DictSet(final, best[k][1], FinalRole(best[k][1], best[k][2], croles)))

\* the whole call; the record holds the locals the claims speak about
assign_team_roles(team, data) ==
    LET croles == ChampionRolesOf(team, data)
        participant_ids == ParticipantIds(team)
        found == SearchLoop(1, Len(AllPermutations),
                            [best_score |-> -1, best_assignment |-> EmptyDict],
                            participant_ids, croles)
    IN [champion_roles |-> croles,
        best_score |-> found.best_score,
        best_assignment |-> found.best_assignment,
        final_assignment |-> FinalFrom(1, found.best_assignment, croles, EmptyDict)]

----------------------------------------------------------------------------
(* Display names *)

Whitespace == {" ", "\t"}

\* a variant that takes any name that is not empty
IsNotEmpty(name) == name # <<>>

\* ' ' in display_name
ContainsSpace(name) == \E i \in 1..Len(name) : name[i] = " "

RECURSIVE StripLeft(_)
StripLeft(name) ==
    IF name = <<>> THEN <<>>
    ELSE IF Head(name) \in Whitespace THEN StripLeft(Tail(name))
    ELSE name

RECURSIVE FirstWord(_)
FirstWord(name) ==
    IF name = <<>> THEN <<>>
    ELSE IF Head(name) \in Whitespace THEN <<>>
    ELSE <<Head(name)>> \o FirstWord(Tail(name))

\* display_name.split() is not empty
HasToken(name) == StripLeft(name) # <<>>

\* display_name.split()[0]
FirstToken(name) == FirstWord(StripLeft(name))

\* name or default
NameOr(name, default) == IF name = <<>> THEN default ELSE name

----------------------------------------------------------------------------
(* extract_draft_from_file: the state of a call *)

\* the locals before the first line is read
InitialLocals ==
    [pc |-> "reading", io_error |-> FALSE, line_num |-> 0,
     draft_events |-> <<>>, seen_bans |-> {}, player_champions |-> EmptyDict,
     team_names |-> {}, winning_team |-> "None",
     team_one_name |-> <<>>, team_two_name |-> <<>>,
     team_one_composition |-> EmptyDict, team_two_composition |-> EmptyDict,
     team_one_players |-> EmptyDict, team_two_players |-> EmptyDict,
     team_one_list |-> <<>>, team_two_list |-> <<>>,
     team_one_roles |-> EmptyDict, team_two_roles |-> EmptyDict,
     appended_events |-> <<>>,
     result |-> [events |-> <<>>, blue_bans |-> <<>>, red_bans |-> <<>>,
                 team1 |-> [name |-> <<>>, picks |-> <<>>],
                 team2 |-> [name |-> <<>>, picks |-> <<>>],
                 winner |-> <<>>]]

\* the call after "except Exception: return None": the locals are gone
Failed(io) == [InitialLocals EXCEPT !.pc = "failed", !.io_error = io]

\* an exception that leaves the loop over the lines
Raise(s) == Failed(FALSE)

----------------------------------------------------------------------------
(* extract_draft_from_file: bans *)

BanFields == {"championID", "pickTurn", "teamID"}

BanKey(ban) == <<ban.championID, ban.pickTurn, ban.teamID>>

\* a variant in which only teamID 200 is Red
BanSideOfTwoHundred(teamID) == IF teamID = 200 THEN <<"Red">> ELSE <<"Blue">>

BanSide(teamID) == IF teamID = 100 THEN <<"Blue">> ELSE <<"Red">>

\* the dict appended for a ban; the keys only picks have hold their .get default
BanEvent(ban, timestamp, line_num) ==
    [type |-> "ban", pickTurn |-> ban.pickTurn,
     champion |-> get_champion_name(ban.championID),
     championID |-> ban.championID, team |-> BanSide(ban.teamID),
     timestamp |-> timestamp, line |-> line_num,
     player |-> <<>>, team_key |-> "", team_side |-> "",
     participant_id |-> 0, role |-> ""]

\* a variant that forgets the key
MarkSeenNot(seen, ban_key) == seen

\* seen_bans.add(ban_key)
MarkSeen(seen, ban_key) == seen \cup {ban_key}

\* the body of "for ban in current_bans"
ProcessBan(s, ban, timestamp, line_num) ==
    IF ~(BanFields \subseteq ban.keys) THEN Raise(s)
    ELSE IF BanKey(ban) \in s.seen_bans THEN s
    ELSE [s EXCEPT !.seen_bans = MarkSeen(@, BanKey(ban)),
                   !.draft_events = Append(@, BanEvent(ban, timestamp, line_num))]

RECURSIVE ProcessBans(_, _, _, _, _)
ProcessBans(s, bans, i, timestamp, line_num) ==
    IF s.pc = "failed" \/ i > Len(bans) THEN s
    ELSE ProcessBans(ProcessBan(s, bans[i], timestamp, line_num),
                     bans, i + 1, timestamp, line_num)

----------------------------------------------------------------------------
(* extract_draft_from_file: team names *)

\* player.get('displayName', '')
DisplayNameOf(player) ==
    IF "displayName" \in player.keys THEN player.displayName ELSE <<>>

\* "for player in data[team]: if ' ' in display_name: ... break" from the
\* i-th player on: the name found (none: the empty name), or an IndexError
RECURSIVE ScanTeamName(_, _)
ScanTeamName(roster, i) ==
    IF i > Len(roster) THEN [raised |-> FALSE, name |-> <<>>]
    ELSE IF ContainsSpace(DisplayNameOf(roster[i]))
         THEN IF HasToken(DisplayNameOf(roster[i]))
              THEN [raised |-> FALSE, name |-> FirstToken(DisplayNameOf(roster[i]))]
              ELSE [raised |-> TRUE, name |-> <<>>]
    ELSE ScanTeamName(roster, i + 1)

\* a variant that captures a name from every snapshot with members
CaptureAlways(current_name, roster) == roster # <<>>

\* "team in data and data[team] and not team_name" (a slot that is absent and
\* one that is the empty list fail this test alike)
CaptureAllowed(current_name, roster) == roster # <<>> /\ current_name = <<>>

CaptureTeamOne(s, roster) ==
    IF s.pc = "failed" \/ ~CaptureAllowed(s.team_one_name, roster) THEN s
    ELSE LET found == ScanTeamName(roster, 1)
         IN IF found.raised THEN Raise(s)
            ELSE IF found.name = <<>> THEN s
            ELSE [s EXCEPT !.team_one_name = found.name,
                           !.team_names = @ \cup {found.name}]

CaptureTeamTwo(s, roster) ==
    IF s.pc = "failed" \/ ~CaptureAllowed(s.team_two_name, roster) THEN s
    ELSE LET found == ScanTeamName(roster, 1)
         IN IF found.raised THEN Raise(s)
            ELSE IF found.name = <<>> THEN s
            ELSE [s EXCEPT !.team_two_name = found.name,
                           !.team_names = @ \cup {found.name}]

----------------------------------------------------------------------------
(* extract_draft_from_file: picks and champion swaps *)

\* the dict appended for a pick
PickEvent(player, team_key, team_name, team_side, timestamp, line_num) ==
    [type |-> "pick", pickTurn |-> player.pickTurn,
     champion |-> get_champion_name(player.championID),
     championID |-> player.championID, team |-> team_name,
     timestamp |-> timestamp, line |-> line_num,
     player |-> player.displayName, team_key |-> team_key,
     team_side |-> team_side, participant_id |-> player.participantID,
     role |-> "TBD"]

\* a variant that forgets the participant
RecordChampionNot(player_champions, participant_id, champion_id) ==
    player_champions

\* player_champions[participant_id] = champion_id
RecordChampion(player_champions, participant_id, champion_id) ==
    DictSet(player_champions, participant_id, champion_id)

\* the branch "participant_id not in player_champions"
NewPick(s, team_key, team_name, team_side, player, timestamp, line_num) ==
    LET pid == player.participantID
        entry == <<get_champion_name(player.championID), player.championID>>
        s1 == [s EXCEPT !.player_champions =
                            RecordChampion(@, pid, player.championID)]
        s2 == IF team_key = "teamOne"
              THEN [s1 EXCEPT !.team_one_composition = DictSet(@, pid, entry),
                              !.team_one_players = DictSet(@, pid, player.displayName)]
              ELSE [s1 EXCEPT !.team_two_composition = DictSet(@, pid, entry),
                              !.team_two_players = DictSet(@, pid, player.displayName)]
    IN IF ~({"displayName", "pickTurn"} \subseteq player.keys) THEN Raise(s)
       ELSE [s2 EXCEPT !.draft_events =
                Append(@, PickEvent(player, team_key, team_name, team_side,
                                    timestamp, line_num))]

\* the test of the loop "Update existing pick"
IsPickOf(event, player) ==
    event.type = "pick" /\ event.player = player.displayName

\* the loop "for event in draft_events: if ...: ...; break"
UpdateExistingPick(events, player, timestamp, line_num) ==
    IF \E i \in 1..Len(events) : IsPickOf(events[i], player)
    THEN LET first == CHOOSE i \in 1..Len(events) :
                          /\ IsPickOf(events[i], player)
                          /\ \A j \in 1..(i-1) : ~IsPickOf(events[j], player)
         IN [events EXCEPT ![first] =
                [@ EXCEPT !.champion = get_champion_name(player.championID),
                          !.championID = player.championID,
                          !.timestamp = timestamp,
                          !.line = line_num]]
    ELSE events

\* the branch "player_champions[participant_id] != champion_id"
ChampionSwap(s, team_key, player, timestamp, line_num) ==
    LET pid == player.participantID
        entry == <<get_champion_name(player.championID), player.championID>>
        s1 == [s EXCEPT !.player_champions =
                            RecordChampion(@, pid, player.championID)]
        s2 == IF team_key = "teamOne"
              THEN [s1 EXCEPT !.team_one_composition = DictSet(@, pid, entry)]
              ELSE [s1 EXCEPT !.team_two_composition = DictSet(@, pid, entry)]
    IN \* player['displayName'] is read at the first pick of the log, and the
       \* participant's own pick is in the log
       IF "displayName" \notin player.keys THEN Raise(s)
       ELSE [s2 EXCEPT !.draft_events =
                UpdateExistingPick(@, player, timestamp, line_num)]

\* the body of "for player in data[team_key]"
ProcessPlayer(s, team_key, team_name, team_side, player, timestamp, line_num) ==
    IF ~({"participantID", "championID"} \subseteq player.keys) THEN Raise(s)
    ELSE IF player.championID > 0
    THEN IF ~DictHas(s.player_champions, player.participantID)
         THEN NewPick(s, team_key, team_name, team_side, player, timestamp, line_num)
         ELSE IF DictGet(s.player_champions, player.participantID) # player.championID
         THEN ChampionSwap(s, team_key, player, timestamp, line_num)
         ELSE s
    ELSE s

RECURSIVE ProcessPlayers(_, _, _, _, _, _, _, _)
ProcessPlayers(s, team_key, team_name, team_side, roster, i, timestamp, line_num) ==
    IF s.pc = "failed" \/ i > Len(roster) THEN s
    ELSE ProcessPlayers(
             ProcessPlayer(s, team_key, team_name, team_side, roster[i],
                           timestamp, line_num),
             team_key, team_name, team_side, roster, i + 1, timestamp, line_num)

\* one pass of "for team_key in ['teamOne', 'teamTwo']"
ProcessTeam(s, team_key, roster, timestamp, line_num) ==
    IF s.pc = "failed" THEN s
    ELSE IF team_key = "teamOne"
    THEN ProcessPlayers(s, team_key, NameOr(s.team_one_name, <<"TeamOne">>),
                        "Blue", roster, 1, timestamp, line_num)
    ELSE ProcessPlayers(s, team_key, NameOr(s.team_two_name, <<"TeamTwo">>),
                        "Red", roster, 1, timestamp, line_num)

----------------------------------------------------------------------------
(* extract_draft_from_file: one line *)

\* a variant in which the snapshots of the game are processed as well
DraftAndGameStates == {"CHAMP_SELECT", "PRE_CHAMP_SELECT", "IN_GAME"}

DraftStates == {"CHAMP_SELECT", "PRE_CHAMP_SELECT"}

\* a variant in which a game_end record adds its bans to the log
GameEndWithBans(s, data) ==
    ProcessBans(s, data.bannedChampions, 1, data.rfc460Timestamp, s.line_num)

\* the branch of a game_end record
GameEnd(s, data) ==
    [s EXCEPT !.winning_team =
        IF data.winningTeam = 100 THEN "teamOne"
        ELSE IF data.winningTeam = 200 THEN "teamTwo"
        ELSE @]

\* the part of the loop body after the two "continue" tests
DraftSnapshot(s, data, line_num) ==
    LET timestamp == data.rfc460Timestamp
        named == CaptureTeamTwo(CaptureTeamOne(s, data.teamOne), data.teamTwo)
        banned == IF named.pc = "failed" THEN named
                  ELSE ProcessBans(named, data.bannedChampions, 1, timestamp, line_num)
        one == ProcessTeam(banned, "teamOne", data.teamOne, timestamp, line_num)
    IN ProcessTeam(one, "teamTwo", data.teamTwo, timestamp, line_num)

\* a variant in which a line that cannot be decoded ends the parse
UndecodedRaises(counted) == Raise(counted)

\* "except json.JSONDecodeError: continue"
Undecoded(counted) == counted

\* the body of "for line_num, line in enumerate(f, 1)" on one line
ProcessLine(s, line) ==
    LET counted == [s EXCEPT !.line_num = @ + 1]
    IN IF line.kind = "undecodable" THEN Undecoded(counted)
       ELSE IF line.kind = "nonobject" THEN Raise(s)
       ELSE IF line.rfc461Schema = "game_end" THEN GameEnd(counted, line)
       ELSE IF line.gameState \notin DraftStates THEN counted
       ELSE DraftSnapshot(counted, line, counted.line_num)

----------------------------------------------------------------------------
(* extract_draft_from_file: after the last line *)

\* [(pid, comp[0], comp[1]) for pid, comp in composition.items()]
CompositionList(composition) ==
    [i \in 1..Len(composition) |->
        [pid |-> composition[i][1],
         name |-> composition[i][2][1],
         id |-> composition[i][2][2]]]

\* the loop "Update draft events with assigned roles" of one team
BackfillRoles(events, team_key, roles) ==
    [i \in 1..Len(events) |->
        IF /\ events[i].type = "pick"
           /\ events[i].team_key = team_key
           /\ DictHas(roles, events[i].participant_id)
        THEN [events[i] EXCEPT !.role = DictGet(roles, events[i].participant_id)]
        ELSE events[i]]

\* a variant in which a later event goes before the earlier events of its
\* pickTurn
StaysBeforeStrictly(earlier, later) == earlier.pickTurn < later.pickTurn

\* list.sort(key=lambda x: x['pickTurn']) is stable: an event stays before a
\* later one unless its pickTurn is greater
StaysBefore(earlier, later) == earlier.pickTurn <= later.pickTurn

\* event put into a sorted list of the events that came before it
RECURSIVE InsertSorted(_, _)
InsertSorted(sorted, event) ==
    IF sorted = <<>> THEN <<event>>
    ELSE IF StaysBefore(Head(sorted), event)
         THEN <<Head(sorted)>> \o InsertSorted(Tail(sorted), event)
         ELSE <<event>> \o sorted

RECURSIVE SortFrom(_, _, _)
SortFrom(events, i, sorted) ==
    IF i > Len(events) THEN sorted
    ELSE SortFrom(events, i + 1, InsertSorted(sorted, events[i]))

\* draft_events.sort(key=lambda x: x['pickTurn'])
SortByPickTurn(events) == SortFrom(events, 1, <<>>)

RECURSIVE BanChampions(_, _, _)
BanChampions(events, i, side) ==
    IF i > Len(events) THEN <<>>
    ELSE (IF events[i].type = "ban" /\ events[i].team = side
          THEN <<events[i].champion>> ELSE <<>>)
         \o BanChampions(events, i + 1, side)

\* [(p['player'], p['champion'], p['role']) for the picks of a team_key]
RECURSIVE TeamPicks(_, _, _)
TeamPicks(events, i, team_key) ==
    IF i > Len(events) THEN <<>>
    ELSE (IF events[i].type = "pick" /\ events[i].team_key = team_key
          THEN << <<events[i].player, events[i].champion, events[i].role>> >>
          ELSE <<>>)
         \o TeamPicks(events, i + 1, team_key)

\* a variant in which team one wins unless team two is recorded
WinnerOrTeamOne(s) ==
    IF s.winning_team = "teamTwo" THEN NameOr(s.team_two_name, <<"Red", " ", "Team">>)
    ELSE NameOr(s.team_one_name, <<"Blue", " ", "Team">>)

\* "Determine winner based on winning_team"
WinnerOf(s) ==
    IF s.winning_team = "teamOne" THEN NameOr(s.team_one_name, <<"Blue", " ", "Team">>)
    ELSE IF s.winning_team = "teamTwo" THEN NameOr(s.team_two_name, <<"Red", " ", "Team">>)
    ELSE <<>>

\* the dict returned
ResultOf(s, events) ==
    [events |-> events,
     blue_bans |-> BanChampions(events, 1, <<"Blue">>),
     red_bans |-> BanChampions(events, 1, <<"Red">>),
     team1 |-> [name |-> NameOr(s.team_one_name, <<"Team1">>),
                picks |-> TeamPicks(events, 1, "teamOne")],
     team2 |-> [name |-> NameOr(s.team_two_name, <<"Team2">>),
                picks |-> TeamPicks(events, 1, "teamTwo")],
     winner |-> WinnerOf(s)]

\* the code after the loop over the lines
Finish(s, data) ==
    LET one_list == IF s.team_one_composition # <<>>
                    THEN CompositionList(s.team_one_composition) ELSE <<>>
        one_roles == IF s.team_one_composition # <<>>
                     THEN assign_team_roles(one_list, data).final_assignment
                     ELSE EmptyDict
        after_one == BackfillRoles(s.draft_events, "teamOne", one_roles)
        two_list == IF s.team_two_composition # <<>>
                    THEN CompositionList(s.team_two_composition) ELSE <<>>
        two_roles == IF s.team_two_composition # <<>>
                     THEN assign_team_roles(two_list, data).final_assignment
                     ELSE EmptyDict
        after_two == BackfillRoles(after_one, "teamTwo", two_roles)
        sorted == SortByPickTurn(after_two)
    IN [s EXCEPT !.pc = "done",
                 !.team_one_list = one_list, !.team_one_roles = one_roles,
                 !.team_two_list = two_list, !.team_two_roles = two_roles,
                 !.appended_events = after_two,
                 !.draft_events = sorted,
                 !.result = ResultOf(s, sorted)]

----------------------------------------------------------------------------
(* format_draft_for_sheets *)

\* pendulum.parse(text).format('YYYY-MM-DD HH:mm') on the texts it parses
PendulumFormatted ==
    "2025-03-01T18:30:59Z" :> "2025-03-01 18:30"

\* series_date: the attribute when there is one, formatted when it parses
SeriesDate(series_data) ==
    IF ~series_data.has_start_time_scheduled THEN "Unknown"
    ELSE LET series_date == series_data.start_time_scheduled
         IN IF series_date # "Unknown" /\ series_date \in DOMAIN PendulumFormatted
            THEN PendulumFormatted[series_date]
            ELSE series_date

\* [p[j] for p in picks], j counted from 0
Column(picks, j) == [i \in 1..Len(picks) |-> picks[i][j + 1]]

\* a variant that repeats the last entry in the slots after it
SlotOrLast(list, k) ==
    IF list = <<>> THEN "" ELSE list[Min(k + 1, Len(list))]

\* list[k] if len(list) > k else ''
SlotOr(list, k) == IF Len(list) > k THEN list[k + 1] ELSE ""

\* the row of one series; draft_data.get('winner', '') is the value of the
\* key, which every dict of extract_draft_from_file has
format_draft_for_sheets(series_id, series_data, draft_data) ==
    IF DOMAIN draft_data = {} THEN <<>>
    ELSE
    LET series_date == SeriesDate(series_data)
        team1 == draft_data.team1
        team2 == draft_data.team2
        blue_bans == draft_data.blue_bans
        red_bans == draft_data.red_bans
        blue_picks == Column(team1.picks, 1)
        red_picks == Column(team2.picks, 1)
        blue_roles == Column(team1.picks, 2)
        red_roles == Column(team2.picks, 2)
    IN << series_id, series_date, team1.name, team2.name,
          SlotOr(blue_bans, 0), SlotOr(red_bans, 0),
          SlotOr(blue_bans, 1), SlotOr(red_bans, 1),
          SlotOr(blue_bans, 2), SlotOr(red_bans, 2),
          SlotOr(blue_picks, 0),
          SlotOr(red_picks, 0), SlotOr(red_picks, 1),
          SlotOr(blue_picks, 1), SlotOr(blue_picks, 2),
          SlotOr(red_picks, 2),
          SlotOr(red_bans, 3), SlotOr(blue_bans, 3),
          SlotOr(red_bans, 4), SlotOr(blue_bans, 4),
          SlotOr(red_picks, 3),
          SlotOr(blue_picks, 3), SlotOr(blue_picks, 4),
          SlotOr(red_picks, 4),
          draft_data.winner,
          SlotOr(blue_roles, 0), SlotOr(blue_roles, 1), SlotOr(blue_roles, 2),
          SlotOr(blue_roles, 3), SlotOr(blue_roles, 4),
          SlotOr(red_roles, 0), SlotOr(red_roles, 1), SlotOr(red_roles, 2),
          SlotOr(red_roles, 3), SlotOr(red_roles, 4) >>

----------------------------------------------------------------------------
(* What the processed snapshots have shown *)

\* ban_keys: the identity keys of the bans seen; repeated_bans: the keys seen
\* again; champions: the last champion (> 0) seen for a participant; swapped:
\* the participants seen with a champion and later with another; returned: the
\* participants seen with championID 0 after a champion; skipped: for each
\* line that decoded, the number of lines before it that did not;
\* last_game_end: the winningTeam of the last game_end record (none: 0);
\* first_one, first_two: the first tokens of the display names of the first
\* non-empty roster a draft snapshot carried in the slot (none yet: empty);
\* spaced_one, spaced_two: the display name of the first member with a space in
\* its name, in the first draft snapshot that carried one in the slot;
\* last_line: what the line read last was
NothingObserved ==
    [ban_keys |-> {}, repeated_bans |-> {}, champions |-> EmptyDict,
     swapped |-> {}, returned |-> {}, skipped |-> <<>>,
     last_game_end |-> 0, first_one |-> {}, first_two |-> {},
     spaced_one |-> {}, spaced_two |-> {},
     last_line |-> [class |-> "none", gameState |-> "", loaded |-> FALSE]]

\* a record that reaches the ban and pick loops
IsDraftSnapshot(line) ==
    /\ line.kind = "object"
    /\ line.rfc461Schema # "game_end"
    /\ line.gameState \in DraftStates

ObserveBan(o, ban) ==
    IF ~(BanFields \subseteq ban.keys) THEN o
    ELSE IF BanKey(ban) \in o.ban_keys
    THEN [o EXCEPT !.repeated_bans = @ \cup {BanKey(ban)}]
    ELSE [o EXCEPT !.ban_keys = @ \cup {BanKey(ban)}]

RECURSIVE ObserveBans(_, _, _)
ObserveBans(o, bans, i) ==
    IF i > Len(bans) THEN o
    ELSE ObserveBans(ObserveBan(o, bans[i]), bans, i + 1)

ObservePlayer(o, player) ==
    IF ~({"participantID", "championID"} \subseteq player.keys) THEN o
    ELSE IF player.championID <= 0
    THEN IF DictHas(o.champions, player.participantID)
         THEN [o EXCEPT !.returned = @ \cup {player.participantID}]
         ELSE o
    ELSE IF ~DictHas(o.champions, player.participantID)
    THEN [o EXCEPT !.champions = DictSet(@, player.participantID, player.championID)]
    ELSE IF DictGet(o.champions, player.participantID) # player.championID
    THEN [o EXCEPT !.champions = DictSet(@, player.participantID, player.championID),
                   !.swapped = @ \cup {player.participantID}]
    ELSE o

RECURSIVE ObservePlayers(_, _, _)
ObservePlayers(o, roster, i) ==
    IF i > Len(roster) THEN o
    ELSE ObservePlayers(ObservePlayer(o, roster[i]), roster, i + 1)

\* the first tokens of the display names of a roster
RosterTokens(roster) ==
    {FirstToken(DisplayNameOf(roster[i])) : i \in 1..Len(roster)}

\* the display name of the first member of a roster that has a space in it
FirstSpaced(roster) ==
    LET spaced == {i \in 1..Len(roster) : " " \in Range(DisplayNameOf(roster[i]))}
    IN {DisplayNameOf(roster[i]) : i \in {j \in spaced : \A k \in spaced : j <= k}}

ObserveRosters(o, line) ==
    [o EXCEPT !.first_one = IF @ = {} THEN RosterTokens(line.teamOne) ELSE @,
              !.first_two = IF @ = {} THEN RosterTokens(line.teamTwo) ELSE @,
              !.spaced_one = IF @ = {} THEN FirstSpaced(line.teamOne) ELSE @,
              !.spaced_two = IF @ = {} THEN FirstSpaced(line.teamTwo) ELSE @]

ObserveSnapshot(o, line) ==
    IF ~IsDraftSnapshot(line) THEN o
    ELSE ObservePlayers(
             ObservePlayers(ObserveBans(ObserveRosters(o, line),
                                        line.bannedChampions, 1),
                            line.teamOne, 1),
             line.teamTwo, 1)

ObserveGameEnd(o, line) ==
    IF line.kind = "object" /\ line.rfc461Schema = "game_end"
    THEN [o EXCEPT !.last_game_end = line.winningTeam]
    ELSE o

\* what a line is to the loop, its gameState, and whether it carries bans or
\* roster members
LineClass(line) ==
    [class |-> IF line.kind # "object" THEN line.kind
               ELSE IF line.rfc461Schema = "game_end" THEN "game_end"
               ELSE "snapshot",
     gameState |-> line.gameState,
     loaded |-> line.bannedChampions # <<>> \/ line.teamOne # <<>>
                \/ line.teamTwo # <<>>]

\* line is the next line after line_num lines
Observe(o, line, line_num) ==
    LET read == [o EXCEPT !.last_line = LineClass(line)]
    IN IF line.kind = "undecodable" THEN read
       ELSE ObserveSnapshot(
                ObserveGameEnd([read EXCEPT !.skipped = Append(@, line_num - Len(@))],
                               line),
                line)

----------------------------------------------------------------------------
(* The lines of a match file *)

PlayerFields == {"participantID", "championID", "pickTurn", "displayName"}

Ban(champion_id, pick_turn, team_id) ==
    [keys |-> BanFields, championID |-> champion_id, pickTurn |-> pick_turn,
     teamID |-> team_id]

Player(participant_id, champion_id, pick_turn, display_name) ==
    [keys |-> PlayerFields, participantID |-> participant_id,
     championID |-> champion_id, pickTurn |-> pick_turn,
     displayName |-> display_name]

\* an entry without one of its keys
Without(entry, key) == [entry EXCEPT !.keys = @ \ {key}]

Snapshot(game_state, timestamp, bans, team_one, team_two) ==
    [kind |-> "object", rfc461Schema |-> "", winningTeam |-> 0,
     gameState |-> game_state, rfc460Timestamp |-> timestamp,
     bannedChampions |-> bans, teamOne |-> team_one, teamTwo |-> team_two]

GameEndRecord(winning_team) ==
    [Snapshot("", "", <<>>, <<>>, <<>>) EXCEPT
        !.rfc461Schema = "game_end", !.winningTeam = winning_team]

\* a line json.loads rejects
Undecodable == [Snapshot("", "", <<>>, <<>>, <<>>) EXCEPT !.kind = "undecodable"]

\* a line that is JSON but no object (a list, a number, null)
NonObject == [Snapshot("", "", <<>>, <<>>, <<>>) EXCEPT !.kind = "nonobject"]

NameTA == <<"T", " ", "a">>
NameTB == <<"T", " ", "b">>
NameUC == <<"U", " ", "c">>
NameBlank == <<" ", " ">>
NameSolo == <<"solo">>
NameRED == <<"RED", " ", "x">>

Ban1 == Ban(1, 1, 100)
Ban2 == Ban(2, 2, 200)
Ban3 == Ban(1, 1, 200)
Ban4 == Ban(2, 2, 300)

\* in the files of the model participant 1 picks in turn 2, the others in turn 1
PickTurnOf(participant_id) == IF participant_id = 1 THEN 2 ELSE 1

StampOf(champion_id) == IF champion_id = 238 THEN "t2" ELSE "t1"

PickLine(team_key, participant_id, champion_id, pick_turn, display_name) ==
    LET roster == << Player(participant_id, champion_id, pick_turn, display_name) >>
    IN Snapshot("CHAMP_SELECT", StampOf(champion_id), <<>>,
                IF team_key = "teamOne" THEN roster ELSE <<>>,
                IF team_key = "teamTwo" THEN roster ELSE <<>>)

BanLines ==
    { Snapshot("PRE_CHAMP_SELECT", "t0", bans, <<>>, <<>>) :
        bans \in { <<Ban1>>, <<Ban2>>, <<Ban3>>, <<Ban1, Ban1>>, <<Ban1, Ban2>> } }

TeamOneLines ==
    { PickLine("teamOne", pid, cid, PickTurnOf(pid), name) :
        pid \in {1, 2}, cid \in {64, 238}, name \in {NameTA, NameTB} }
    \cup { PickLine("teamOne", 1, 0, 2, NameTA), PickLine("teamOne", 1, 238, 1, NameTA) }

TeamTwoLines ==
    { PickLine("teamTwo", pid, 238, PickTurnOf(pid), name) :
        pid \in {1, 2}, name \in {NameTA, NameUC} }
    \cup { PickLine("teamTwo", 2, 64, 1, NameUC) }

FullLines ==
    { Snapshot("CHAMP_SELECT", "t3", <<Ban2>>,
               << Player(1, 64, 2, NameTA), Player(2, 238, 1, NameTB) >>,
               << Player(3, 14, 3, NameUC) >>),
      Snapshot("CHAMP_SELECT", "t3", <<>>,
               << Player(1, 64, 2, NameSolo), Player(2, 64, 1, NameTA) >>, <<>>) }

MalformedLines ==
    { Snapshot("CHAMP_SELECT", "t0", << Without(Ban1, "teamID") >>, <<>>, <<>>),
      Snapshot("CHAMP_SELECT", "t1", <<>>,
               << Without(Player(1, 64, 2, NameTA), "participantID") >>, <<>>),
      Snapshot("CHAMP_SELECT", "t1", <<>>,
               << Without(Player(1, 64, 2, NameTA), "displayName") >>, <<>>),
      Snapshot("CHAMP_SELECT", "t1", <<>>, <<>>,
               << Player(2, 64, 1, NameBlank) >>),
      NonObject }

OtherLines ==
    { Undecodable, GameEndRecord(100), GameEndRecord(200),
      Snapshot("IN_GAME", "t4", <<Ban3>>, << Player(2, 64, 1, NameTB) >>, <<>>) }

\* a game_end record with another winningTeam, and one that also carries a
\* draft state, a ban and a roster member with a champion
GameEndLines ==
    { GameEndRecord(300),
      [Snapshot("CHAMP_SELECT", "t3", <<Ban2>>,
                << Player(2, 238, 1, NameUC) >>, <<>>)
          EXCEPT !.rfc461Schema = "game_end", !.winningTeam = 200] }

\* a team called RED with a ban of teamID 300, and a team whose only member
\* has a name of one word
NamingLines ==
    { Snapshot("CHAMP_SELECT", "t3", <<Ban4>>, <<>>,
               << Player(3, 14, 3, NameRED) >>),
      PickLine("teamOne", 1, 64, 2, NameSolo) }

\* a snapshot whose first slot lists six participants with a champion
CrowdedLines ==
    { Snapshot("CHAMP_SELECT", "t5", <<>>,
               << Player(4, 14, 4, <<"T", " ", "d">>),
                  Player(5, 64, 5, <<"T", " ", "e">>),
                  Player(6, 238, 6, <<"T", " ", "f">>),
                  Player(7, 62, 7, <<"T", " ", "g">>),
                  Player(8, 1, 8, <<"T", " ", "h">>),
                  Player(9, 2, 9, <<"T", " ", "i">>) >>, <<>>) }

Lines ==
    BanLines \cup TeamOneLines \cup TeamTwoLines \cup FullLines
    \cup MalformedLines \cup OtherLines \cup GameEndLines \cup NamingLines
    \cup CrowdedLines

\* the longest file of the model, in lines
MaxLines == 3

----------------------------------------------------------------------------
(* A specification of extract_draft_from_file *)

NoCall == [pc |-> "none", team_champions |-> <<>>, locals |-> <<>>]

NoReport == [pc |-> "none"]

\* the process between two runs: nothing in memory
NotRunning ==
    [pc |-> "idle", spreadsheet_id |-> FALSE, processed_series |-> EmptyDict,
     new_files |-> <<>>, i |-> 0, draft_rows |-> <<>>, row_files |-> <<>>]

\* no run yet: no tracking file, no local file, an empty sheet
NoDriver ==
    [tracker |-> EmptyDict, local |-> {}, sheet |-> <<>>, sheet_files |-> <<>>,
     contents |-> <<>>, runs |-> 0, proc |-> NotRunning,
     start_tracker |-> EmptyDict, parsed |-> <<>>, last_end |-> "none"]

Init ==
    /\ champion_role_data = AffinityA
    /\ roles_call = NoCall
    /\ parser = InitialLocals
    /\ reference = InitialLocals
    /\ observed = NothingObserved
    /\ report_call = NoReport
    /\ driver = NoDriver

\* the loop reads one more line
ReadLine ==
    /\ parser.pc = "reading"
    /\ parser.line_num < MaxLines
    /\ \E line \in Lines :
         /\ parser' = ProcessLine(parser, line)
         /\ reference' = IF line.kind = "undecodable" THEN reference
                         ELSE ProcessLine(reference, line)
         /\ observed' = Observe(observed, line, parser.line_num)
    /\ UNCHANGED <<champion_role_data, roles_call, report_call, driver>>

\* opening or reading the file fails
StreamError ==
    /\ parser.pc = "reading"
    /\ parser' = Failed(TRUE)
    /\ reference' = Failed(TRUE)
    /\ UNCHANGED <<champion_role_data, roles_call, observed, report_call,
                   driver>>

\* the file is exhausted
EndOfStream ==
    /\ parser.pc = "reading"
    /\ parser' = Finish(parser, champion_role_data)
    /\ UNCHANGED <<champion_role_data, roles_call, reference, observed,
                   report_call, driver>>

Next == ReadLine \/ StreamError \/ EndOfStream

Spec == Init /\ [][Next]_vars

----------------------------------------------------------------------------
(* A specification of assign_team_roles on five-member teams *)

Member(pid, champ_id) ==
    [pid |-> pid, name |-> get_champion_name(champ_id), id |-> champ_id]

\* participant ids of a five-member team, in the order of the input list
TeamPidOrders ==
    { <<1, 2, 3, 4, 5>>, <<5, 4, 3, 2, 1>>, <<6, 7, 8, 9, 10>>,
      <<2, 1, 3, 4, 11>>, <<11, 12, 13, 14, 15>>, <<9, 7, 10, 6, 8>> }

\* Sion, Wukong (no role data under the key the alias gives it) and Zed
TeamChampionIds == {14, 62, 238}

FiveMemberTeams ==
    { [i \in 1..5 |-> Member(pids[i], champs[i])] :
        pids \in TeamPidOrders, champs \in [1..5 -> TeamChampionIds] }

\* the locals of a call that has not run yet
NotAssigned ==
    [champion_roles |-> EmptyDict, best_score |-> -1,
     best_assignment |-> EmptyDict, final_assignment |-> EmptyDict]

RolesInit ==
    /\ champion_role_data \in AffinityTables
    /\ \E team \in FiveMemberTeams :
          roles_call = [pc |-> "called", team_champions |-> team,
                        locals |-> NotAssigned]
    /\ parser = InitialLocals
    /\ reference = InitialLocals
    /\ observed = NothingObserved
    /\ report_call = NoReport
    /\ driver = NoDriver

AssignTeamRoles ==
    /\ roles_call.pc = "called"
    /\ roles_call' =
          [roles_call EXCEPT
             !.pc = "returned",
             !.locals = assign_team_roles(roles_call.team_champions,
                                          champion_role_data)]
    /\ UNCHANGED <<champion_role_data, parser, reference, observed,
                   report_call, driver>>

RolesNext == AssignTeamRoles

SpecRoles == RolesInit /\ [][RolesNext]_vars

----------------------------------------------------------------------------
(* A specification of format_draft_for_sheets on the dicts of the parser *)

MaxEntries == 6

\* the champions of the bans and picks of a side, by position
ChampionIds == <<1, 14, 62, 64, 238, 9999, 2>>

ChampionAt(k, shift) ==
    get_champion_name(ChampionIds[((k + shift - 1) % Len(ChampionIds)) + 1])

\* the ban list of a side: n champions
BanList(n, shift) == [k \in 1..n |-> ChampionAt(k, shift)]

\* roles the resolver leaves on the picks of the first five members of a team,
\* in the order of the picks
RolePatterns ==
    { <<"top", "jungle", "mid", "adc", "supp">>,
      <<"mid", "", "supp", "", "top">> }

\* a pick past the fifth member keeps the role NewPick gave it
RoleAt(pattern, k) == IF k <= Len(pattern) THEN pattern[k] ELSE "TBD"

\* the picks of a team: n tuples (player, champion, role)
PickList(n, shift, tag, pattern) ==
    [k \in 1..n |-> << <<tag, " ", ToString(k)>>, ChampionAt(k, shift),
                       RoleAt(pattern, k) >>]

\* series objects: without the attribute, with a time that parses, with a text
\* that does not
SeriesDatas ==
    { [has_start_time_scheduled |-> FALSE, start_time_scheduled |-> ""],
      [has_start_time_scheduled |-> TRUE,
       start_time_scheduled |-> "2025-03-01T18:30:59Z"],
      [has_start_time_scheduled |-> TRUE, start_time_scheduled |-> "soon"] }

\* dicts of the shape ResultOf builds; the events are left out, the formatter
\* does not read them
ParsedMatches ==
    { [blue_bans |-> BanList(nbb, 0), red_bans |-> BanList(nrb, 2),
       team1 |-> [name |-> one, picks |-> PickList(nbp, 3, "T", pattern)],
       team2 |-> [name |-> <<"Team2">>, picks |-> PickList(nrp, 5, "U", pattern)],
       winner |-> winner] :
        nbb \in 0..MaxEntries, nrb \in 0..MaxEntries,
        nbp \in 0..MaxEntries, nrp \in 0..MaxEntries,
        pattern \in RolePatterns,
        one \in {<<"T">>}, winner \in {<<>>, <<"T">>} }

ReportInit ==
    /\ champion_role_data = AffinityA
    /\ roles_call = NoCall
    /\ parser = InitialLocals
    /\ reference = InitialLocals
    /\ observed = NothingObserved
    /\ \E series_data \in SeriesDatas, draft_data \in ParsedMatches :
          report_call = [pc |-> "called", series_id |-> "2718",
                         series_data |-> series_data, draft_data |-> draft_data,
                         row |-> <<>>]
    /\ driver = NoDriver

FormatDraftForSheets ==
    /\ report_call.pc = "called"
    /\ report_call' =
          [report_call EXCEPT
             !.pc = "returned",
             !.row = format_draft_for_sheets(report_call.series_id,
                                             report_call.series_data,
                                             report_call.draft_data)]
    /\ UNCHANGED <<champion_role_data, roles_call, parser, reference, observed,
                   driver>>

ReportNext == FormatDraftForSheets

SpecReport == ReportInit /\ [][ReportNext]_vars

----------------------------------------------------------------------------
(* run, download_new_scrims, update_google_sheets and the tracking file *)

\* a variant in which a file that cannot be parsed gives a match without
\* actions
EmptyMatch ==
    [events |-> <<>>, blue_bans |-> <<>>, red_bans |-> <<>>,
     team1 |-> [name |-> <<"Team1">>, picks |-> <<>>],
     team2 |-> [name |-> <<"Team2">>, picks |-> <<>>],
     winner |-> <<>>]

\* extract_draft_from_file returns None
None == <<>>

\* the loop over the lines of a file that can be read, from the i-th line on
RECURSIVE ReadLines(_, _, _)
ReadLines(s, lines, i) ==
    IF s.pc = "failed" \/ i > Len(lines) THEN s
    ELSE ReadLines(ProcessLine(s, lines[i]), lines, i + 1)

\* the whole call on a file: None when the file cannot be read or a line raises
extract_draft_from_file(file, data) ==
    IF ~file.readable THEN None
    ELSE LET s == ReadLines(InitialLocals, file.lines, 1)
         IN IF s.pc = "failed" THEN None ELSE Finish(s, data).result

\* the first row of an empty sheet
headers ==
    << "Series ID", "Date", "Blue Team", "Red Team",
       "Blue Ban 1", "Red Ban 1", "Blue Ban 2", "Red Ban 2", "Blue Ban 3", "Red Ban 3",
       "Blue Pick 1", "Red Pick 1", "Red Pick 2", "Blue Pick 2", "Blue Pick 3",
       "Red Pick 3",
       "Red Ban 4", "Blue Ban 4", "Red Ban 5", "Blue Ban 5",
       "Red Pick 4", "Blue Pick 4", "Blue Pick 5", "Red Pick 5",
       "Winner",
       "Blue Role 1", "Blue Role 2", "Blue Role 3", "Blue Role 4", "Blue Role 5",
       "Red Role 1", "Red Role 2", "Red Role 3", "Red Role 4", "Red Role 5" >>

\* the series of the provider and the riot livestats files of each
SeriesIds == {"s1", "s2"}

FilesOf(series_id) == IF series_id = "s1" THEN <<"a", "b">> ELSE <<"c">>

Files == {"a", "b", "c"}

SeriesOf(file) == IF file = "c" THEN "s2" ELSE "s1"

\* the series object of the provider
SeriesDataOf(series_id) ==
    [has_start_time_scheduled |-> TRUE,
     start_time_scheduled |-> "2025-03-01T18:30:59Z"]

\* what a file can hold: a draft with a winner, a snapshot whose roster entry
\* has no participantID, or nothing that can be read
DraftFile ==
    [readable |-> TRUE,
     lines |-> << Snapshot("CHAMP_SELECT", "t1", <<Ban1>>,
                           << Player(1, 64, 2, NameTA) >>,
                           << Player(6, 238, 1, NameUC) >>),
                  GameEndRecord(100) >>]

MalformedFile ==
    [readable |-> TRUE,
     lines |-> << Snapshot("CHAMP_SELECT", "t1", <<>>,
                  << Without(Player(1, 64, 2, NameTA), "participantID") >>,
                  <<>>) >>]

UnreadableFile == [readable |-> FALSE, lines |-> <<>>]

FileContents == {DraftFile, MalformedFile, UnreadableFile}

\* what one call of download_new_scrims meets: the provider's answer, the
\* series whose file list is refused, the files whose download is refused and
\* the files whose download breaks after the local file was opened
Downloads ==
    { [api_ok |-> FALSE, listed |-> <<>>, denied |-> {}, http |-> {}, partial |-> {}],
      [api_ok |-> TRUE, listed |-> <<>>, denied |-> {}, http |-> {}, partial |-> {}],
      [api_ok |-> TRUE, listed |-> <<"s1", "s2">>, denied |-> {}, http |-> {},
       partial |-> {}],
      [api_ok |-> TRUE, listed |-> <<"s2", "s1", "s2">>, denied |-> {}, http |-> {},
       partial |-> {}],
      [api_ok |-> TRUE, listed |-> <<"s1", "s2">>, denied |-> {"s2"}, http |-> {},
       partial |-> {}],
      [api_ok |-> TRUE, listed |-> <<"s1", "s2">>, denied |-> {}, http |-> {"b"},
       partial |-> {}],
      [api_ok |-> TRUE, listed |-> <<"s1", "s2">>, denied |-> {}, http |-> {},
       partial |-> {"a"}] }

\* a variant in which no file is found in the downloads directory
NeverExists(file, local) == FALSE

\* local_path.exists()
AlreadyExists(file, local) == file \in local

\* "for file_info in riot_livestats_files", from the k-th file on; an
\* exception leaves the loop for the next series
RECURSIVE DownloadFiles(_, _, _, _, _)
DownloadFiles(series_id, files, k, st, io) ==
    IF k > Len(files) THEN st
    ELSE LET file == files[k]
             info == [series_id |-> series_id, series |-> SeriesDataOf(series_id),
                      file_path |-> file,
                      already_existed |-> AlreadyExists(file, st.local)]
         IN IF info.already_existed
            THEN DownloadFiles(series_id, files, k + 1,
                     [st EXCEPT !.downloaded_files = Append(@, info)], io)
            ELSE IF file \in io.http THEN st
            ELSE IF file \in io.partial THEN [st EXCEPT !.local = @ \cup {file}]
            ELSE DownloadFiles(series_id, files, k + 1,
                     [st EXCEPT !.local = @ \cup {file},
                                !.downloaded_files = Append(@, info)], io)

\* "for edge in series_list" and "for series_info in new_series" in one pass:
\* the filter reads the tracker, which the downloads do not change
RECURSIVE DownloadSeries(_, _, _, _, _)
DownloadSeries(listed, j, processed_series, st, io) ==
    IF j > Len(listed) THEN st
    ELSE LET series_id == listed[j]
             next == IF DictHas(processed_series, series_id) THEN st
                     ELSE IF series_id \in io.denied THEN st
                     ELSE DownloadFiles(series_id, FilesOf(series_id), 1, st, io)
         IN DownloadSeries(listed, j + 1, processed_series, next, io)

\* the whole call: the local files after it and the list it returns
download_new_scrims(processed_series, local, io) ==
    IF ~io.api_ok THEN [local |-> local, downloaded_files |-> <<>>]
    ELSE DownloadSeries(io.listed, 1, processed_series,
                        [local |-> local, downloaded_files |-> <<>>], io)

\* "if draft_data:" of run
Extracted(draft_data) == DOMAIN draft_data # {}

\* the body of "for file_info in new_files" on the file the loop stands at,
\* draft_data being what extract_draft_from_file returned for it
ProcessFileInfo(d, draft_data) ==
    LET file_info == d.new_files[d.i]
        row == format_draft_for_sheets(file_info.series_id, file_info.series,
                                       draft_data)
        next == [d EXCEPT !.i = @ + 1,
                          !.pc = IF d.i = Len(d.new_files) THEN "updating"
                                 ELSE "processing"]
    IN IF file_info.already_existed THEN next
       ELSE IF Extracted(draft_data)
       THEN [next EXCEPT
               !.draft_rows = IF row # <<>> THEN Append(@, row) ELSE @,
               !.row_files = IF row # <<>> THEN Append(@, file_info.file_path)
                             ELSE @,
               !.processed_series =
                   DictSet(@, file_info.series_id,
                           [file_path |-> file_info.file_path,
                            team1 |-> draft_data.team1.name,
                            team2 |-> draft_data.team2.name])]
       ELSE next

\* what a call of update_google_sheets can meet once the spreadsheet id is set
SheetOutcomes ==
    {"updated", "auth_failed", "http_error", "raised", "raised_after_update"}

\* the outcomes in which values().update has been executed
Written(outcome) == outcome \in {"updated", "raised_after_update"}

\* the sheet after the call: column A decides where the rows go
update_google_sheets(sheet, has_spreadsheet_id, draft_rows, outcome) ==
    IF ~has_spreadsheet_id THEN sheet
    ELSE IF ~Written(outcome) THEN sheet
    ELSE IF sheet = <<>> THEN <<headers>> \o draft_rows
    ELSE sheet \o draft_rows

\* save_processed_scrims: the file holds what the process has in memory
save_processed_scrims(tracker, processed_series) == processed_series

----------------------------------------------------------------------------
(* A specification of the runs of the analyzer *)

MaxRuns == 2

RunsInit ==
    /\ champion_role_data = AffinityA
    /\ roles_call = NoCall
    /\ parser = InitialLocals
    /\ reference = InitialLocals
    /\ observed = NothingObserved
    /\ report_call = NoReport
    /\ \E contents \in [Files -> FileContents] :
          driver = [NoDriver EXCEPT !.contents = contents]

\* the process ends: what it held in memory is gone
Ended(d, how) == [d EXCEPT !.proc = NotRunning, !.last_end = how]

\* main builds the analyzer: __init__ loads the tracking file
Construct ==
    /\ driver.proc.pc = "idle"
    /\ driver.runs < MaxRuns
    /\ \E has_spreadsheet_id \in BOOLEAN :
          driver' = [driver EXCEPT
                       !.runs = @ + 1,
                       !.start_tracker = driver.tracker,
                       !.last_end = "none",
                       !.proc = [NotRunning EXCEPT
                                   !.pc = "constructed",
                                   !.spreadsheet_id = has_spreadsheet_id,
                                   !.processed_series = driver.tracker]]
    /\ UNCHANGED <<champion_role_data, roles_call, parser, reference, observed,
                   report_call>>

\* run up to the loop over the new files
Downloaded(d, io) ==
    LET got == download_new_scrims(d.proc.processed_series, d.local, io)
    IN IF got.downloaded_files = <<>>
       THEN [Ended(d, "no_new_files") EXCEPT !.local = got.local]
       ELSE [d EXCEPT !.local = got.local,
                      !.proc = [@ EXCEPT !.pc = "processing",
                                         !.new_files = got.downloaded_files,
                                         !.i = 1]]

DownloadNewScrims ==
    /\ driver.proc.pc = "constructed"
    /\ \E io \in Downloads : driver' = Downloaded(driver, io)
    /\ UNCHANGED <<champion_role_data, roles_call, parser, reference, observed,
                   report_call>>

\* what extract_draft_from_file returns for the file the loop stands at
ExtractedDraft(d, data) ==
    LET file_info == d.proc.new_files[d.proc.i]
    IN IF file_info.already_existed THEN None
       ELSE extract_draft_from_file(d.contents[file_info.file_path], data)

\* one pass of the loop over the new files
Processed(d, draft_data) ==
    LET proc == ProcessFileInfo(d.proc, draft_data)
        file_info == d.proc.new_files[d.proc.i]
    IN [d EXCEPT
          !.proc = proc,
          !.parsed = IF file_info.already_existed THEN @
                     ELSE Append(@, [file |-> file_info.file_path,
                                     run |-> d.runs,
                                     rows |-> Len(proc.draft_rows)
                                              - Len(d.proc.draft_rows),
                                     marked |-> proc.processed_series
                                                # d.proc.processed_series])]

ProcessFile ==
    /\ driver.proc.pc = "processing"
    /\ \E draft_data \in {ExtractedDraft(driver, champion_role_data)} :
          driver' = Processed(driver, draft_data)
    /\ UNCHANGED <<champion_role_data, roles_call, parser, reference, observed,
                   report_call>>

\* "if draft_rows: self.update_google_sheets(draft_rows)"
Updated(d, outcome) ==
    LET sheet == update_google_sheets(d.sheet, d.proc.spreadsheet_id,
                                      d.proc.draft_rows, outcome)
        files == IF sheet = d.sheet THEN d.sheet_files
                 ELSE (IF d.sheet = <<>> THEN <<"">> ELSE d.sheet_files)
                      \o d.proc.row_files
        after == [d EXCEPT !.sheet = sheet, !.sheet_files = files]
    IN IF d.proc.spreadsheet_id /\ outcome \in {"raised", "raised_after_update"}
       THEN Ended(after, "raised")
       ELSE [after EXCEPT !.proc = [@ EXCEPT !.pc = "saving"]]

UpdateGoogleSheets ==
    /\ driver.proc.pc = "updating"
    /\ IF driver.proc.draft_rows = <<>>
       THEN driver' = [driver EXCEPT !.proc = [@ EXCEPT !.pc = "saving"]]
       ELSE \E outcome \in SheetOutcomes : driver' = Updated(driver, outcome)
    /\ UNCHANGED <<champion_role_data, roles_call, parser, reference, observed,
                   report_call>>

SaveProcessedScrims ==
    /\ driver.proc.pc = "saving"
    /\ driver' = [Ended(driver, "completed") EXCEPT
                    !.tracker = save_processed_scrims(@, driver.proc.processed_series)]
    /\ UNCHANGED <<champion_role_data, roles_call, parser, reference, observed,
                   report_call>>

\* the process is stopped from outside
Stop ==
    /\ driver.proc.pc # "idle"
    /\ driver' = Ended(driver, "stopped")
    /\ UNCHANGED <<champion_role_data, roles_call, parser, reference, observed,
                   report_call>>

RunsNext ==
    \/ Construct
    \/ DownloadNewScrims
    \/ ProcessFile
    \/ UpdateGoogleSheets
    \/ SaveProcessedScrims
    \/ Stop

SpecRuns == RunsInit /\ [][RunsNext]_vars

----------------------------------------------------------------------------
(* Properties of the parser *)

Running == parser.pc # "failed"
Done == parser.pc = "done"

\* the positions of the picks of a participant in a log
PicksOf(events, pid) ==
    {i \in 1..Len(events) : events[i].type = "pick" /\ events[i].participant_id = pid}

\* the positions of the bans a key stands for in a log
BansOf(events, key) ==
    {i \in 1..Len(events) :
        /\ events[i].type = "ban"
        /\ events[i].championID = key[1]
        /\ events[i].pickTurn = key[2]
        /\ events[i].team = BanSide(key[3])}

\* the keys that give the same ban action as key
SameAction(keys, key) ==
    {k \in keys : k[1] = key[1] /\ k[2] = key[2] /\ BanSide(k[3]) = BanSide(key[3])}

\* C1: in the returned log a participant seen with a champion and later with
\* another one has exactly one Pick, and its champion is the last one seen
SwapOverwrites ==
    Done =>
        \A pid \in observed.swapped :
            \E i \in 1..Len(parser.result.events) :
                /\ PicksOf(parser.result.events, pid) = {i}
                /\ parser.result.events[i].championID = DictGet(observed.champions, pid)

\* C2: while the parse runs and when it has returned, the log holds one Ban for
\* each identity key seen and no other Ban, however often the key was seen
BanPerKey ==
    Running =>
        /\ parser.pc = "reading" => parser.seen_bans = observed.ban_keys
        /\ \A key \in observed.ban_keys :
              Cardinality(BansOf(parser.draft_events, key))
                  = Cardinality(SameAction(observed.ban_keys, key))
        /\ Cardinality({i \in 1..Len(parser.draft_events) :
                            parser.draft_events[i].type = "ban"})
              = Cardinality(observed.ban_keys)

BanSeenAgain ==
    /\ Done
    /\ observed.repeated_bans # {}
    /\ Cardinality(observed.ban_keys) >= 2
    /\ parser.line_num >= 2

\* C3: in every state of the parse the log holds at most one Pick for a
\* participant id: one for each participant seen with a champion, none for others
PickPerParticipant ==
    Running =>
        /\ \A i \in 1..Len(parser.draft_events) :
              parser.draft_events[i].type = "pick" =>
                  PicksOf(parser.draft_events, parser.draft_events[i].participant_id) = {i}
        /\ \A pid \in DictKeys(observed.champions) :
              Cardinality(PicksOf(parser.draft_events, pid)) = 1

SwappedReturnedBothSlots ==
    /\ Done
    /\ \E pid \in observed.swapped \cap observed.returned :
          /\ DictHas(parser.team_one_composition, pid)
          /\ DictHas(parser.team_two_composition, pid)
          /\ Cardinality(PicksOf(parser.result.events, pid)) = 1

\* the actions of pickTurn t of a log, in the order of the log
RECURSIVE OfTurn(_, _)
OfTurn(events, t) ==
    IF events = <<>> THEN <<>>
    ELSE (IF Head(events).pickTurn = t THEN <<Head(events)>> ELSE <<>>)
         \o OfTurn(Tail(events), t)

\* C4: the returned log is non-decreasing in pickTurn, and the actions of one
\* pickTurn are those appended during the stream, in the order of appending
SortedStable ==
    Done =>
        LET events == parser.result.events
            appended == parser.appended_events
        IN /\ Len(events) = Len(appended)
           /\ \A i \in 1..Len(events) : \A j \in i..Len(events) :
                 events[i].pickTurn <= events[j].pickTurn
           /\ \A i \in 1..Len(appended) :
                 OfTurn(events, appended[i].pickTurn)
                     = OfTurn(appended, appended[i].pickTurn)

SortMovedAndTied ==
    /\ Done
    /\ \E i \in 1..Len(parser.appended_events) :
       \E j \in (i+1)..Len(parser.appended_events) :
          parser.appended_events[i].pickTurn > parser.appended_events[j].pickTurn
    /\ \E i \in 1..Len(parser.appended_events) :
       \E j \in (i+1)..Len(parser.appended_events) :
          /\ parser.appended_events[i].pickTurn = parser.appended_events[j].pickTurn
          /\ parser.appended_events[i] # parser.appended_events[j]

\* the member of a team list with a participant id and a champion id
Resolved(list, pid, champion_id) ==
    \E k \in 1..Len(list) : list[k].pid = pid /\ list[k].id = champion_id

\* C8: for every Pick of the result, the champion the resolver was given for
\* the participant, in the run whose roles the Pick received, is the Pick's
\* champion
RolesFromFinalComposition ==
    Done =>
        \A i \in 1..Len(parser.result.events) :
            LET event == parser.result.events[i]
            IN event.type = "pick" =>
                  Resolved(IF event.team_key = "teamOne" THEN parser.team_one_list
                           ELSE parser.team_two_list,
                           event.participant_id, event.championID)

\* C9: the parse fails only when the stream cannot be opened or read
FailureOnlyOnStreamError == parser.pc = "failed" => parser.io_error

\* a log without the source lines
Unlined(events) == [i \in 1..Len(events) |-> [events[i] EXCEPT !.line = 0]]

\* the source line of each action of a log is that of the same action of
\* another log plus the lines skipped before it
LinesShifted(events, others, skipped) ==
    /\ Len(events) = Len(others)
    /\ \A i \in 1..Len(events) :
          events[i].line = others[i].line + skipped[others[i].line]

\* the result for the stream without the lines that cannot be decoded
ReferenceResult == Finish(reference, champion_role_data).result

\* C10 as stated: the actions, rosters and winner of the result are those of
\* the stream without the lines that cannot be decoded
UndecodableLineRemoved ==
    Done =>
        \A removed \in {ReferenceResult} :
            /\ parser.result.events = removed.events
            /\ parser.result.team1 = removed.team1
            /\ parser.result.team2 = removed.team2
            /\ parser.result.winner = removed.winner

\* C10: a line that cannot be decoded changes the parser state in the line
\* count only, the parse goes on, and the result is that of the stream without
\* such lines apart from the source line of each action, which is greater by
\* the number of such lines before it
UndecodableLineSkipped ==
    /\ parser.pc = "failed" <=> reference.pc = "failed"
    /\ parser.pc = "reading" =>
          /\ [parser EXCEPT !.line_num = 0, !.draft_events = <<>>]
                = [reference EXCEPT !.line_num = 0, !.draft_events = <<>>]
          /\ Unlined(parser.draft_events) = Unlined(reference.draft_events)
          /\ LinesShifted(parser.draft_events, reference.draft_events,
                          observed.skipped)
    /\ Done =>
          \A removed \in {ReferenceResult} :
              /\ Unlined(parser.result.events) = Unlined(removed.events)
              /\ LinesShifted(parser.result.events, removed.events,
                              observed.skipped)
              /\ parser.result.blue_bans = removed.blue_bans
              /\ parser.result.red_bans = removed.red_bans
              /\ parser.result.team1 = removed.team1
              /\ parser.result.team2 = removed.team2
              /\ parser.result.winner = removed.winner

SkippedBeforeAnAction ==
    /\ Done
    /\ parser.line_num > reference.line_num
    /\ parser.result.team1.picks # <<>>
    /\ \E removed \in {ReferenceResult} :
       \E i \in 1..Len(parser.result.events) :
          parser.result.events[i].line > removed.events[i].line

\* C11: the winner of the result is the name of the slot the winningTeam of
\* the last game_end record stands for: team one for 100, team two for any
\* other id (a slot without a captured name is reported under some name)
WinnerOfLastGameEnd ==
    (Done /\ observed.last_game_end # 0) =>
        LET name == IF observed.last_game_end = 100 THEN parser.team_one_name
                    ELSE parser.team_two_name
        IN IF name # <<>> THEN parser.result.winner = name
           ELSE parser.result.winner # <<>>

\* C12: a stream without a game_end record is parsed to a result whose winner
\* is absent; a winner is reported only when a game_end record was read
NoGameEndNoWinner ==
    /\ (parser.pc = "reading" /\ observed.last_game_end = 0) =>
           parser.winning_team = "None"
    /\ (Done /\ observed.last_game_end = 0) => parser.result.winner = <<>>
    /\ (Done /\ parser.result.winner # <<>>) => observed.last_game_end # 0

ParsedWithoutGameEnd ==
    /\ Done
    /\ observed.last_game_end = 0
    /\ parser.result.winner = <<>>
    /\ parser.result.team1.picks # <<>>
    /\ parser.result.team2.picks # <<>>
    /\ parser.result.blue_bans # <<>>

\* C13 as stated: once a draft snapshot has carried members in a slot, the
\* slot has a team name, the first token of the display name of one of them
TeamNameCaptured ==
    Running =>
        /\ observed.first_one # {} =>
               parser.team_one_name # <<>> /\ parser.team_one_name \in observed.first_one
        /\ observed.first_two # {} =>
               parser.team_two_name # <<>> /\ parser.team_two_name \in observed.first_two

\* token is the first whitespace-delimited token of name
IsFirstToken(token, name) ==
    /\ token # <<>>
    /\ \A i \in 1..Len(token) : token[i] \notin Whitespace
    /\ \E before \in 0..Len(name) :
          /\ \A i \in 1..before : name[i] \in Whitespace
          /\ before + Len(token) <= Len(name)
          /\ SubSeq(name, before + 1, before + Len(token)) = token
          /\ before + Len(token) < Len(name) =>
                 name[before + Len(token) + 1] \in Whitespace

\* the team name is that of the first member seen with a space in its name
NamedAfter(team_name, spaced) ==
    IF spaced = {} THEN team_name = <<>>
    ELSE \A name \in spaced : IsFirstToken(team_name, name)

\* C13: while the parse has not failed, a slot has a team name once a draft
\* snapshot has carried in it a member whose display name contains a space;
\* the name is the first whitespace-delimited token of the display name of
\* the first such member of that snapshot, and the result reports it
TeamNameFromSpacedName ==
    Running =>
        /\ NamedAfter(parser.team_one_name, observed.spaced_one)
        /\ NamedAfter(parser.team_two_name, observed.spaced_two)
        /\ (Done /\ observed.spaced_one # {}) =>
               parser.result.team1.name = parser.team_one_name
        /\ (Done /\ observed.spaced_two # {}) =>
               parser.result.team2.name = parser.team_two_name

NamedBySecondRoster ==
    /\ Done
    /\ observed.first_one = {NameSolo}
    /\ observed.spaced_one # {}
    /\ parser.result.team1.name = <<"T">>

\* C14: a step of the parse that does not fail leaves a captured team name of
\* either slot as it is, and the result reports the captured name
TeamNameFrozen ==
    [][(parser.pc = "reading" /\ parser'.pc # "failed") =>
          /\ parser.team_one_name # <<>> =>
                 /\ parser'.team_one_name = parser.team_one_name
                 /\ parser'.pc = "done" =>
                        parser'.result.team1.name = parser.team_one_name
          /\ parser.team_two_name # <<>> =>
                 /\ parser'.team_two_name = parser.team_two_name
                 /\ parser'.pc = "done" =>
                        parser'.result.team2.name = parser.team_two_name]_vars

OtherNameAfterCapture ==
    /\ Done
    /\ parser.result.team2.name = <<"T">>
    /\ \E i \in 1..Len(parser.result.events) :
          /\ parser.result.events[i].type = "pick"
          /\ parser.result.events[i].team_key = "teamTwo"
          /\ parser.result.events[i].team = <<"T">>
          /\ ~IsFirstToken(<<"T">>, parser.result.events[i].player)

\* the positions of the bans of a side in a log
BansOfSide(events, side) ==
    {i \in 1..Len(events) : events[i].type = "ban" /\ events[i].team = side}

\* list holds the champions of the bans of a side, in the order of the log
ListsSide(list, events, side) ==
    /\ Len(list) = Cardinality(BansOfSide(events, side))
    /\ \A i \in BansOfSide(events, side) :
          list[Cardinality({j \in BansOfSide(events, side) : j <= i})]
              = events[i].champion

\* C15: of the bans seen for a champion and a pickTurn, the one with teamID 100
\* is in the log as a Blue ban and each one with another teamID as a Red ban;
\* the blue and the red ban list of the result hold the champions of the Blue
\* and of the Red bans of the log, and every ban is in one of them
BanSideByTeamId ==
    Running =>
        /\ \A key \in observed.ban_keys :
              LET same == {k \in observed.ban_keys : k[1] = key[1] /\ k[2] = key[2]}
                  bans(side) == {i \in BansOfSide(parser.draft_events, side) :
                                    /\ parser.draft_events[i].championID = key[1]
                                    /\ parser.draft_events[i].pickTurn = key[2]}
              IN /\ Cardinality(bans(<<"Blue">>))
                       = Cardinality({k \in same : k[3] = 100})
                 /\ Cardinality(bans(<<"Red">>))
                       = Cardinality({k \in same : k[3] # 100})
        /\ Done =>
              /\ ListsSide(parser.result.blue_bans, parser.result.events, <<"Blue">>)
              /\ ListsSide(parser.result.red_bans, parser.result.events, <<"Red">>)
              /\ Len(parser.result.blue_bans) + Len(parser.result.red_bans)
                    = Cardinality({i \in 1..Len(parser.result.events) :
                                      parser.result.events[i].type = "ban"})

BansOfThreeTeamIds ==
    /\ Done
    /\ {key[3] : key \in observed.ban_keys} = {100, 200, 300}
    /\ Len(parser.result.blue_bans) = 1
    /\ Len(parser.result.red_bans) = 2
    /\ parser.result.team2.picks # <<>>

\* the step reads a line of a class and the loop goes on
Reads(class) ==
    /\ parser.pc = "reading"
    /\ parser'.pc = "reading"
    /\ parser'.line_num = parser.line_num + 1
    /\ observed'.last_line.class = class

\* C16: reading a game_end record changes, apart from the count of the lines,
\* nothing but the recorded winning team: the log, the seen bans, the recorded
\* champions, the compositions and the team names stay as they are
GameEndFrame ==
    [][Reads("game_end") =>
          parser' = [parser EXCEPT !.line_num = @ + 1,
                                   !.winning_team = parser'.winning_team]]_vars

LoadedGameEndRead ==
    /\ parser.pc = "reading"
    /\ observed.last_line = [class |-> "game_end", gameState |-> "CHAMP_SELECT",
                             loaded |-> TRUE]
    /\ parser.winning_team = "teamTwo"
    /\ parser.draft_events # <<>>
    /\ parser.seen_bans = {}
    /\ ~DictHas(parser.player_champions, 2)

\* C17: reading a record that is no game_end record and whose gameState is
\* neither CHAMP_SELECT nor PRE_CHAMP_SELECT changes nothing but the count of
\* the lines
NonDraftFrame ==
    [][(/\ Reads("snapshot")
        /\ observed'.last_line.gameState \notin {"CHAMP_SELECT", "PRE_CHAMP_SELECT"})
          => parser' = [parser EXCEPT !.line_num = @ + 1]]_vars

LoadedNonDraftRead ==
    /\ parser.pc = "reading"
    /\ observed.last_line = [class |-> "snapshot", gameState |-> "IN_GAME",
                             loaded |-> TRUE]
    /\ parser.winning_team = "teamOne"
    /\ parser.draft_events # <<>>
    /\ parser.seen_bans = {}
    /\ parser.team_one_name = <<>>

\* the roles a returned Pick may carry
ResolvedRoles == Range(required_roles) \cup {""}

\* the picks of a slot in the returned log
SlotPicks(team_key) ==
    { i \in 1..Len(parser.result.events) :
        /\ parser.result.events[i].type = "pick"
        /\ parser.result.events[i].team_key = team_key }

\* C24: in a returned match the role of each Pick is top, jungle, mid, adc,
\* supp or the empty string, whatever the number of participants of its slot
NoPlaceholderRole ==
    Done =>
       \A team_key \in {"teamOne", "teamTwo"} :
          \A i \in SlotPicks(team_key) :
             parser.result.events[i].role \in ResolvedRoles

\* C25: the roles a call of assign_team_roles returns for a slot give no
\* non-empty role to two members, whatever the size of the team, and in a
\* returned match no non-empty role is on two Picks of one slot
NoRoleTwice ==
    Done =>
       /\ \A roles \in {parser.team_one_roles, parser.team_two_roles} :
             \A j, k \in 1..Len(roles) :
                (j # k /\ roles[j][2] # "") => roles[j][2] # roles[k][2]
       /\ \A team_key \in {"teamOne", "teamTwo"} :
             \A i, j \in SlotPicks(team_key) :
                (i # j /\ parser.result.events[i].role # "")
                   => parser.result.events[i].role # parser.result.events[j].role

\* the participants the line of the step shows with another champion than
\* the one seen before
SwappedNow ==
    { pid \in DictKeys(observed.champions) :
        DictGet(observed'.champions, pid) # DictGet(observed.champions, pid) }

\* the line of the step shows no new participant with a champion and no new ban
NothingNewNow ==
    /\ DictKeys(observed'.champions) = DictKeys(observed.champions)
    /\ observed'.ban_keys = observed.ban_keys

\* C23: a line that is read changes of the actions already in the log at most
\* the champion, the timestamp and the source line of the Pick of a participant
\* it swaps: pickTurn, participant, player name, team slot and index of each
\* action stay, every other action stays as it is, and a line that shows
\* nothing new leaves the number of actions as it is
SwapFrame ==
    [][(/\ parser.pc = "reading"
        /\ parser'.pc = "reading"
        /\ parser'.line_num = parser.line_num + 1)
         => /\ Len(parser'.draft_events) >= Len(parser.draft_events)
            /\ NothingNewNow => Len(parser'.draft_events) = Len(parser.draft_events)
            /\ \A i \in 1..Len(parser.draft_events) :
                  LET before == parser.draft_events[i]
                      after == parser'.draft_events[i]
                  IN /\ after = [before EXCEPT !.champion = after.champion,
                                               !.championID = after.championID,
                                               !.timestamp = after.timestamp,
                                               !.line = after.line]
                     /\ after # before
                          => /\ before.type = "pick"
                             /\ before.participant_id \in SwappedNow]_vars

----------------------------------------------------------------------------
(* Properties of assign_team_roles *)

Returned == roles_call.pc = "returned"

\* d maps the participants of the team, in their order, one to one onto roles
IsBijectionOnto(d, team, roles) ==
    /\ Len(d) = Len(team)
    /\ \A k \in 1..Len(d) : d[k][1] = team[k].pid
    /\ Len(d) = Len(roles)
    /\ \A r \in Range(roles) : \E k \in 1..Len(d) : d[k][2] = r
    /\ \A k \in 1..Len(d) : d[k][2] \in Range(roles)

\* the preference list of the k-th member of the team
PreferencesOf(team, k) == PreferenceList(team[k].name, team[k].id, champion_role_data)

\* the k-th member has preferences and the search gave it a role outside them
OffAffinity(team, best, k) ==
    /\ PreferencesOf(team, k) # <<>>
    /\ best[k][2] \notin Range(PreferencesOf(team, k))

\* C5 as stated: the mapping returned for a five-member team is a bijection
\* onto the five roles
ReturnedBijection ==
    Returned =>
        IsBijectionOnto(roles_call.locals.final_assignment,
                        roles_call.team_champions, required_roles)

\* C5: the assignment the search selects is a bijection from the five members
\* onto the five roles; the mapping returned has the same members, gives each
\* the selected role or the empty string, repeats no role, and is a bijection
\* exactly when no member with preferences was given a role outside them
SelectedBijection ==
    Returned =>
        LET team == roles_call.team_champions
            best == roles_call.locals.best_assignment
            final == roles_call.locals.final_assignment
        IN /\ IsBijectionOnto(best, team, required_roles)
           /\ DictKeys(final) = DictKeys(best)
           /\ \A k \in 1..Len(final) : final[k][2] \in {best[k][2], ""}
           /\ \A k \in 1..Len(final) : \A m \in 1..Len(final) :
                 (final[k][2] = final[m][2] /\ final[k][2] # "") => k = m
           /\ IsBijectionOnto(final, team, required_roles)
                 <=> \A k \in 1..Len(team) : ~OffAffinity(team, best, k)

ForcedOffAffinity ==
    /\ Returned
    /\ \E k \in 1..5 : OffAffinity(roles_call.team_champions,
                                   roles_call.locals.best_assignment, k)
    /\ \E k \in 1..5 : roles_call.locals.final_assignment[k][2] = ""
    /\ ~IsBijectionOnto(roles_call.locals.final_assignment,
                        roles_call.team_champions, required_roles)

CandidateScore(i) ==
    calculate_assignment_score(
        ZipAssignment(ParticipantIds(roles_call.team_champions), AllPermutations[i]),
        ChampionRolesOf(roles_call.team_champions, champion_role_data))

\* the candidates whose score no candidate exceeds
Maximal ==
    LET scores == {<<i, CandidateScore(i)>> : i \in 1..Len(AllPermutations)}
    IN {c[1] : c \in {c \in scores : \A d \in scores : d[2] <= c[2]}}

\* C7: the assignment selected before post-processing scores at least as much
\* as each of the 120 candidates, and is the first candidate of maximal score
\* in the lexicographic enumeration of the role permutations
SelectedFirstMaximum ==
    Returned =>
        LET first == CHOOSE i \in Maximal : \A j \in Maximal : i <= j
        IN /\ Len(AllPermutations) = 120
           /\ roles_call.locals.best_assignment
                 = ZipAssignment(ParticipantIds(roles_call.team_champions),
                                 AllPermutations[first])
           /\ roles_call.locals.best_score = CandidateScore(first)

TiedMaximumNotFirstCandidate ==
    /\ Returned
    /\ Cardinality(Maximal) >= 2
    /\ 1 \notin Maximal

\* the members of the called team that are reported with a role
ReportedWith(role) ==
    { k \in 1..5 :
        DictGet(roles_call.locals.final_assignment,
                roles_call.team_champions[k].pid) = role }

AllPrefer(prefs) ==
    \A k \in 1..5 : PreferencesOf(roles_call.team_champions, k) = prefs

\* C18: when the preference list of each of the five members is exactly
\* [top], one member is reported with "top" and the other four with the
\* empty string, whatever the participantIds and their order
OneTopFourEmpty ==
    (Returned /\ AllPrefer(<<"top">>))
       => /\ Len(roles_call.locals.final_assignment) = 5
          /\ Cardinality(ReportedWith("top")) = 1
          /\ Cardinality(ReportedWith("")) = 4

\* five members who list top only, the one reported with it the last of the
\* input
LastOfFiveTopsReported ==
    /\ Returned
    /\ AllPrefer(<<"top">>)
    /\ ReportedWith("top") = {5}
    /\ ReportedWith("") = {1, 2, 3, 4}

\* the role the positional convention gives a participantId of 1..10
PositionalRole(pid) == required_roles[((pid - 1) % 5) + 1]

ConventionalPids ==
    { roles_call.team_champions[k].pid : k \in 1..5 } \in {1..5, 6..10}

----------------------------------------------------------------------------
(* Properties of format_draft_for_sheets *)

\* the positions in the row, counted from 1: the k-th ban, pick and role of
\* each side
BlueBanSlots == <<5, 7, 9, 18, 20>>
RedBanSlots == <<6, 8, 10, 17, 19>>
BluePickSlots == <<11, 14, 15, 22, 23>>
RedPickSlots == <<12, 13, 16, 21, 24>>
BlueRoleSlots == <<26, 27, 28, 29, 30>>
RedRoleSlots == <<31, 32, 33, 34, 35>>

\* the slots of a list hold its first five entries in order, '' where the
\* list has ended
Fills(row, slots, list) ==
    \A k \in 1..5 :
       row[slots[k]] = IF k <= Len(list) THEN list[k] ELSE ""

\* the pick and role slots of a team hold the champion and the role of the
\* same pick, the k-th of the team
FillsPicks(row, pick_slots, role_slots, picks) ==
    \A k \in 1..5 :
       IF k <= Len(picks)
       THEN row[pick_slots[k]] = picks[k][2] /\ row[role_slots[k]] = picks[k][3]
       ELSE row[pick_slots[k]] = "" /\ row[role_slots[k]] = ""

\* C20: the row of a parsed match has 35 fields: series id, date, the two
\* team names, ten ban slots, ten pick slots, the winner, five role slots per
\* team; a slot without an entry is '', entries past the fifth of a list are
\* in no slot, and the k-th role slot of a team is the role of its k-th pick
ReportRowShape ==
    report_call.pc = "returned" =>
       LET row == report_call.row
           draft_data == report_call.draft_data
       IN /\ Len(row) = 35
          /\ row[1] = report_call.series_id
          /\ row[2] \in {"Unknown", "2025-03-01 18:30", "soon"}
          /\ row[3] = draft_data.team1.name
          /\ row[4] = draft_data.team2.name
          /\ Fills(row, BlueBanSlots, draft_data.blue_bans)
          /\ Fills(row, RedBanSlots, draft_data.red_bans)
          /\ FillsPicks(row, BluePickSlots, BlueRoleSlots, draft_data.team1.picks)
          /\ FillsPicks(row, RedPickSlots, RedRoleSlots, draft_data.team2.picks)
          /\ row[25] = draft_data.winner

\* a row of a match with six bans and six picks on one side, two bans and
\* three picks on the other
RowOfUnevenMatch ==
    /\ report_call.pc = "returned"
    /\ Len(report_call.draft_data.blue_bans) = 6
    /\ Len(report_call.draft_data.red_bans) = 2
    /\ Len(report_call.draft_data.team1.picks) = 6
    /\ Len(report_call.draft_data.team2.picks) = 3
    /\ report_call.row[20] = report_call.draft_data.blue_bans[5]
    /\ report_call.row[10] = ""
    /\ report_call.row[30] = report_call.draft_data.team1.picks[5][3]
    /\ report_call.row[30] # report_call.row[29]
    /\ report_call.row[34] = ""

----------------------------------------------------------------------------
(* The score of a candidate, member by member *)

\* the role is the one of the conventional slot of the participantId
AtConventionalSlot(pid, role) == pid \in 1..10 /\ role = PositionalRole(pid)

\* the place of the first occurrence of a role in a list, counted from 0
PlaceOf(prefs, role) ==
    CHOOSE i \in 0..(Len(prefs) - 1) :
        /\ prefs[i + 1] = role
        /\ \A j \in 0..(i - 1) : prefs[j + 1] # role

Lists(prefs, role) == \E i \in 1..Len(prefs) : prefs[i] = role

\* the points of a member with the +3 given whenever the slot matches
PointsFlatBonus(prefs, pid, role) ==
    IF prefs = <<>> THEN (IF AtConventionalSlot(pid, role) THEN 5 ELSE 2)
    ELSE (IF Lists(prefs, role) THEN 10 - 2 * PlaceOf(prefs, role) ELSE 1)
         + (IF AtConventionalSlot(pid, role) THEN 3 ELSE 0)

\* the points of a member with the +3 given only on a listed role
PointsListedBonus(prefs, pid, role) ==
    IF prefs = <<>> THEN (IF AtConventionalSlot(pid, role) THEN 5 ELSE 2)
    ELSE IF Lists(prefs, role)
         THEN 10 - 2 * PlaceOf(prefs, role)
              + (IF AtConventionalSlot(pid, role) THEN 3 ELSE 0)
         ELSE 1

\* the points of the k-th member of the called team under the i-th candidate
FlatPoints(i, k) ==
    PointsFlatBonus(PreferencesOf(roles_call.team_champions, k),
                    roles_call.team_champions[k].pid, AllPermutations[i][k])

ListedPoints(i, k) ==
    PointsListedBonus(PreferencesOf(roles_call.team_champions, k),
                      roles_call.team_champions[k].pid, AllPermutations[i][k])

\* C22 as stated: the score of each candidate is the sum over the five
\* members of 10 - 2i for a role at index i of a non-empty list and 1 for a
\* role that is not in it, plus 3 whenever the role is the one of the
\* member's conventional slot, and 5 or 2 for a member with an empty list
ScoreWithFlatBonus ==
    Returned =>
       \A i \in 1..Len(AllPermutations) :
          CandidateScore(i) = FlatPoints(i, 1) + FlatPoints(i, 2) + FlatPoints(i, 3)
                              + FlatPoints(i, 4) + FlatPoints(i, 5)

\* C22: the score of each candidate is the sum over the five members of
\* 10 - 2i, plus 3 at the conventional slot, for a role at index i of a
\* non-empty list, 1 for a role that is not in a non-empty list (at the
\* conventional slot or not), and 5 or 2 for a member with an empty list
ScoreWithListedBonus ==
    Returned =>
       \A i \in 1..Len(AllPermutations) :
          \A score \in {CandidateScore(i)} :
             /\ score = ListedPoints(i, 1) + ListedPoints(i, 2) + ListedPoints(i, 3)
                        + ListedPoints(i, 4) + ListedPoints(i, 5)
             /\ roles_call.locals.best_assignment
                   = ZipAssignment(ParticipantIds(roles_call.team_champions),
                                   AllPermutations[i])
                 => roles_call.locals.best_score = score

\* the selected candidate gives a member a role it does not list at its
\* conventional slot, next to a member without a list and a member on its
\* second role
UnlistedRoleAtConventionalSlot ==
    /\ Returned
    /\ \E k \in 1..5 :
          LET prefs == PreferencesOf(roles_call.team_champions, k)
              role == roles_call.locals.best_assignment[k][2]
          IN /\ prefs # <<>>
             /\ ~Lists(prefs, role)
             /\ AtConventionalSlot(roles_call.team_champions[k].pid, role)
    /\ \E k \in 1..5 : PreferencesOf(roles_call.team_champions, k) = <<>>
    /\ \E k \in 1..5 :
          LET prefs == PreferencesOf(roles_call.team_champions, k)
              role == roles_call.locals.best_assignment[k][2]
          IN Lists(prefs, role) /\ PlaceOf(prefs, role) >= 1

----------------------------------------------------------------------------
(* The order of the members in the list *)

\* other orders in which the five tuples of a team can be listed
ListingOrders == { <<5, 4, 3, 2, 1>>, <<2, 3, 4, 5, 1>>, <<1, 3, 2, 5, 4>> }

Relisted(team, order) == [i \in 1..5 |-> team[order[i]]]

\* the call on the relisted team reports each participant as the call of the
\* state did
SameRolesRelisted(order) ==
    \A relisted \in {assign_team_roles(Relisted(roles_call.team_champions, order),
                                       champion_role_data).final_assignment} :
       \A k \in 1..5 :
          DictGet(relisted, roles_call.team_champions[k].pid)
             = DictGet(roles_call.locals.final_assignment,
                       roles_call.team_champions[k].pid)

\* C26 as stated: listing the same five tuples in another order gives each
\* participantId the same role
OrderIndependent ==
    Returned => \A order \in ListingOrders : SameRolesRelisted(order)

\* C26: when one candidate alone has the maximal score, listing the same five
\* tuples in another order gives each participantId the same role
OrderIndependentWithoutTie ==
    (Returned /\ Cardinality(Maximal) = 1)
       => \A order \in ListingOrders : SameRolesRelisted(order)

\* a team listed out of the order of its participantIds whose single best
\* candidate is not the first of the enumeration
SingleBestOutOfOrder ==
    /\ Returned
    /\ Cardinality(Maximal) = 1
    /\ 1 \notin Maximal
    /\ roles_call.team_champions[1].pid = 9
    /\ \E k \in 1..5 : PreferencesOf(roles_call.team_champions, k) # <<>>
    /\ ReportedWith("") = {}

----------------------------------------------------------------------------
(* Properties of the runs *)

\* the files parsed in the run that is under way or was the last
ParsedNow ==
    { e \in Range(driver.parsed) : e.run = driver.runs }

\* the file holds no draft that can be parsed
Fails(file) == driver.contents[file] # DraftFile

\* the files of the batch that were not there before the download
Batch ==
    { driver.proc.new_files[k].file_path : k \in
        { j \in 1..Len(driver.proc.new_files) :
            ~driver.proc.new_files[j].already_existed } }

\* what the claims say of a parse in a batch apart from the tracker: a failed
\* parse adds no row and no record, a parse that succeeds adds one row and a
\* record of its series, and the loop parses every file of the batch
ParsesOfBatch ==
    /\ \A e \in ParsedNow :
          IF Fails(e.file) THEN e.rows = 0 /\ ~e.marked
          ELSE e.rows = 1 /\ e.marked
    /\ driver.proc.pc \in {"processing", "updating", "saving"} =>
          /\ {e.file : e \in ParsedNow} \subseteq Batch
          /\ Range(driver.proc.row_files) = {e.file : e \in {p \in ParsedNow : ~Fails(p.file)}}
          /\ \A e \in ParsedNow :
                ~Fails(e.file) => DictHas(driver.proc.processed_series, SeriesOf(e.file))
    /\ driver.proc.pc \in {"updating", "saving"} =>
          {e.file : e \in ParsedNow} = Batch
    /\ driver.last_end = "completed" =>
          \A e \in ParsedNow :
             ~Fails(e.file) => DictHas(driver.tracker, SeriesOf(e.file))

\* C21 as stated: a parse that fails adds no row and is not recorded in the
\* tracker, the other files of the batch are parsed, reported and recorded,
\* and the run that completes has saved the tracker without the failed match
FailedMatchNotTracked ==
    /\ ParsesOfBatch
    /\ driver.last_end = "completed" =>
          \A e \in ParsedNow :
             Fails(e.file) => ~DictHas(driver.tracker, SeriesOf(e.file))

\* C21: a parse that fails adds no row and no record, the other files of the
\* batch are parsed, reported and recorded, and the run that completes has
\* saved the tracker; the series of the failed match is in it only when
\* another file of that series was parsed in the run, and then with the path
\* of that file
FailedMatchLocal ==
    /\ ParsesOfBatch
    /\ driver.last_end = "completed" =>
          \A e \in ParsedNow :
             (Fails(e.file) /\ DictHas(driver.tracker, SeriesOf(e.file)))
                => \E other \in ParsedNow :
                      /\ ~Fails(other.file)
                      /\ DictGet(driver.tracker, SeriesOf(e.file)).file_path
                            = other.file

\* a run that completed after the first file of its batch failed and a later
\* one of another series was parsed, reported and recorded
CompletedAfterFailure ==
    /\ driver.last_end = "completed"
    /\ \E e, f \in ParsedNow :
          /\ Fails(e.file)
          /\ ~DictHas(driver.tracker, SeriesOf(e.file))
          /\ ~Fails(f.file)
          /\ DictHas(driver.tracker, SeriesOf(f.file))
          /\ f.file \in Range(driver.sheet_files)
    /\ driver.parsed[1].rows = 0

\* the sheet holds a row of the series
SeriesInSheet(series_id) ==
    \E k \in 1..Len(driver.sheet) : driver.sheet[k][1] = series_id

\* C27: between the runs, whatever the outcome of the sheet update was, every
\* series recorded in the processed tracker has its row in the spreadsheet
TrackedOnlyIfWritten ==
    driver.proc.pc = "idle" =>
        \A series_id \in DictKeys(driver.tracker) : SeriesInSheet(series_id)

\* the series was in the processed tracker when the run under way began
TrackedAtStart(series_id) == DictHas(driver.start_tracker, series_id)

\* what a step downloads and lists: no file of a series tracked at the start
\* of the run is fetched or listed, and a file that was there before the step
\* is listed as already existing
DownloadsOnlyNew ==
    /\ \A file \in driver'.local \ driver.local : ~TrackedAtStart(SeriesOf(file))
    /\ \A k \in 1..Len(driver'.proc.new_files) :
          LET file_info == driver'.proc.new_files[k]
          IN /\ ~TrackedAtStart(file_info.series_id)
             /\ (driver.proc.pc = "constructed" /\ file_info.file_path \in driver.local)
                   => file_info.already_existed

\* over all runs so far: no file was parsed twice, no file of a series tracked
\* at the start of the run and no file that was there before the download was
\* parsed or put in the report batch, and no file has two rows in the sheet,
\* each row of the sheet being the row of the series of its file
ParsedAndReportedOnce ==
    /\ \A i, j \in 1..Len(driver.parsed) :
          driver.parsed[i].file = driver.parsed[j].file => i = j
    /\ \A e \in ParsedNow : ~TrackedAtStart(SeriesOf(e.file))
    /\ driver.proc.pc # "idle" =>
          /\ {e.file : e \in ParsedNow} \subseteq Batch
          /\ Range(driver.proc.row_files) \subseteq Batch
    /\ \A file \in Range(driver.proc.row_files) : ~TrackedAtStart(SeriesOf(file))
    /\ Len(driver.sheet_files) = Len(driver.sheet)
    /\ \A i, j \in 1..Len(driver.sheet_files) :
          driver.sheet_files[i] = driver.sheet_files[j] => i = j
    /\ \A k \in 2..Len(driver.sheet) :
          driver.sheet[k][1] = SeriesOf(driver.sheet_files[k])

\* C28: over any sequence of runs a series tracked at the start of a run is
\* neither downloaded, parsed nor reported in that run, a file that exists
\* locally is never parsed again, and each file has at most one row in the
\* sheet, also after a run that stopped between writing and saving
NoRework == [][DownloadsOnlyNew /\ ParsedAndReportedOnce']_vars

\* a second run has gone through its batch and skipped a file whose row the
\* first run wrote without saving the tracker
SkippedAfterUnsavedWrite ==
    /\ driver.runs = 2
    /\ driver.proc.pc \in {"updating", "saving"}
    /\ \E k \in 1..Len(driver.proc.new_files) :
          LET file_info == driver.proc.new_files[k]
          IN /\ file_info.already_existed
             /\ file_info.file_path \in Range(driver.sheet_files)
             /\ ~DictHas(driver.tracker, file_info.series_id)
             /\ ~TrackedAtStart(file_info.series_id)

====
